---- MODULE Spec2Model ----
(***************************************************************************)
(* Model of podsy: the in-memory iTunesDB library (db/models.py), the      *)
(* playlist mutation API (playlists.py), sync_file / remove_track          *)
(* (sync.py) and the atomic save of the database file (db/parser.py).      *)
(*                                                                         *)
(* Strings that the code takes apart (paths) are sequences of tokens; the  *)
(* separators ":" and "/" are tokens of their own.                         *)
(***************************************************************************)
EXTENDS Integers, Sequences, FiniteSets, TLC

\* ------------------------------------------------------------------------
\* Bounds of the model
\* ------------------------------------------------------------------------
\* most tracks the library holds
MaxTracks == 2
\* largest track id handed out
MaxTrackId == 3
\* most playlists the library holds (the master included)
MaxPlaylists == 3
\* largest playlist id handed out
MaxPlaylistId == 3
\* longest caller-supplied order given to reorder_playlist
MaxOrderLen == 2
\* explicit positions passed by callers range over -MaxPos .. MaxPos
MaxPos == 2
\* number of Fnn folders of the modelled device (range(50) in the code)
NumFolders == 2
\* random.randint(1, 2**63 - 1) draws from 1 .. MaxRand
MaxRand == 1

\* ------------------------------------------------------------------------
\* Input alphabets
\* ------------------------------------------------------------------------
PlaylistNames == {"Favorites", "Library"}
Titles == {"Song One", "Song Two"}
Artists == {"Artist A"}
Albums == {"Album X"}
Digit == <<"0", "1", "2", "3", "4", "5", "6", "7", "8", "9">>
RandomNames == {"AAAA", "BBBB"}
Extensions == {".mp3", ".txt"}
TrackIds == 1..MaxTrackId
PlaylistIds == 1..MaxPlaylistId
Positions == (0 - MaxPos)..MaxPos
RandomIds == 1..MaxRand

\* ------------------------------------------------------------------------
\* Sequence helpers (Python list semantics)
\* ------------------------------------------------------------------------
Range(s) == {s[i] : i \in 1..Len(s)}

SeqsUpTo(S, n) == UNION {[1..k -> S] : k \in 0..n}

Max(S) == CHOOSE m \in S : \A x \in S : x <= m

\* [x for x in s if x != v]
Without(s, v) == SelectSeq(s, LAMBDA x : x /= v)

\* list.insert(position, v): a negative position counts from the end, and the
\* result of that is clamped to [0, len]
ListInsert(s, position, v) ==
    LET n == Len(s)
        p0 == IF position < 0 THEN position + n ELSE position
        p == IF p0 < 0 THEN 0 ELSE IF p0 > n THEN n ELSE p0
    IN SubSeq(s, 1, p) \o <<v>> \o SubSeq(s, p + 1, n)

\* index of the first element satisfying Test, 0 when there is none
FirstIndex(s, Test(_)) ==
    IF \E i \in 1..Len(s) : Test(s[i])
    THEN CHOOSE i \in 1..Len(s) : Test(s[i]) /\ \A j \in 1..(i - 1) : ~Test(s[j])
    ELSE 0

VARIABLES
    db,        \* the Database object: tracks, playlists, the two 64-bit ids
    folders,   \* indices i of the Fnn folders present under device.music_dir
    files,     \* audio files present under device.mount_point (token paths)
    dbfile,    \* content of device.db_path ("absent" or a complete image)
    tmpfile,   \* content of the sibling temp path ("absent", "partial" or an image)
    data,      \* save()'s local: the bytes returned by _build_database
    pc,        \* position of a running save(), "idle" when none runs
    last,      \* the call that returned last: [op, err]
    batch,     \* the locals of a running sync_folder and what it handed out
    parse,     \* the locals of a running _parse_database on the bytes of a file
    codec,     \* a path, what encode_path and decode_path made of it
    copying    \* the locals of a sync_file between its collision check and its copy

vars ==
    <<db, folders, files, dbfile, tmpfile, data, pc, last, batch, parse, codec, copying>>

\* ------------------------------------------------------------------------
\* db/models.py
\* ------------------------------------------------------------------------
\* FileType, MediaType, SortOrder: member name |-> value
FileType == [MP3 |-> 1297101600, AAC |-> 1094796064, M4A |-> 1295270176,
             M4P |-> 1295274016, WAV |-> 1463899680]

MediaType == [AUDIO_VIDEO |-> 0, AUDIO |-> 1, VIDEO |-> 2, PODCAST |-> 4,
              VIDEO_PODCAST |-> 6, AUDIOBOOK |-> 8, MUSIC_VIDEO |-> 32,
              TV_SHOW |-> 64]

SortOrder == [MANUAL |-> 1, TITLE |-> 3, ALBUM |-> 4, ARTIST |-> 5,
              BITRATE |-> 6, GENRE |-> 7, TIME |-> 12, YEAR |-> 13,
              PLAY_COUNT |-> 20, LAST_PLAYED |-> 21, RATING |-> 23,
              RELEASE_DATE |-> 24]

\* the member of an IntEnum with the given value, default when there is none
\* (the try / except ValueError of the parser)
EnumOf(enum, value, default) ==
    IF \E n \in DOMAIN enum : enum[n] = value
    THEN CHOOSE n \in DOMAIN enum : enum[n] = value
    ELSE default

\* Track with the dataclass defaults for the fields not given; the three
\* datetime fields are left out (they default to the clock)
Track(id, title, artist, album, path) ==
    [id |-> id, title |-> title, artist |-> artist, album |-> album,
     album_artist |-> "", genre |-> "", composer |-> "", comment |-> "",
     path |-> path, duration_ms |-> 0, bitrate |-> 0, sample_rate |-> 44100,
     size_bytes |-> 0, track_number |-> 0, total_tracks |-> 0,
     disc_number |-> 1, total_discs |-> 1, year |-> 0, rating |-> 0,
     play_count |-> 0, skip_count |-> 0, file_type |-> "MP3",
     media_type |-> "AUDIO", compilation |-> FALSE, dbid |-> 0,
     pregap |-> 0, postgap |-> 0, sample_count |-> 0, gapless_data |-> 0,
     gapless_track_flag |-> FALSE, gapless_album_flag |-> FALSE]

\* Playlist with the dataclass defaults; the timestamp is left out
Playlist(id, name, track_ids, is_master) ==
    [id |-> id, name |-> name, track_ids |-> track_ids, is_master |-> is_master,
     is_podcast |-> FALSE, sort_order |-> "MANUAL"]

Database == [database_id |-> 0, library_persistent_id |-> 0,
             tracks |-> <<>>, playlists |-> <<>>]

get_track_by_id(d, track_id) ==
    FirstIndex(d.tracks, LAMBDA t : t.id = track_id)

get_playlist_by_id(d, playlist_id) ==
    FirstIndex(d.playlists, LAMBDA p : p.id = playlist_id)

get_playlist_by_name(d, name) ==
    FirstIndex(d.playlists, LAMBDA p : p.name = name)

get_master_playlist(d) ==
    FirstIndex(d.playlists, LAMBDA p : p.is_master)

\* next_track_id that counts the tracks instead of taking the largest id
next_track_id_by_count(d) == Len(d.tracks) + 1

next_track_id(d) ==
    IF d.tracks = <<>> THEN 1
    ELSE Max({d.tracks[i].id : i \in 1..Len(d.tracks)}) + 1

next_playlist_id(d) ==
    IF d.playlists = <<>> THEN 1
    ELSE Max({d.playlists[i].id : i \in 1..Len(d.playlists)}) + 1

\* ------------------------------------------------------------------------
\* playlists.py: every operation maps the library to the library it leaves
\* behind and the error it raises ("ok" when it returns normally)
\* ------------------------------------------------------------------------
Result(d, e) == [db |-> d, err |-> e]

\* create_playlist without the name lookup
create_playlist_unchecked(d, name) ==
    Result([d EXCEPT !.playlists =
               Append(@, Playlist(next_playlist_id(d), name, <<>>, FALSE))], "ok")

create_playlist(d, name) ==
    IF get_playlist_by_name(d, name) /= 0 THEN Result(d, "Duplicate")
    ELSE Result([d EXCEPT !.playlists =
                    Append(@, Playlist(next_playlist_id(d), name, <<>>, FALSE))],
                "ok")

delete_playlist(d, playlist_id) ==
    LET i == get_playlist_by_id(d, playlist_id) IN
    IF i = 0 THEN Result(d, "NotFound")
    ELSE IF d.playlists[i].is_master THEN Result(d, "MasterProtected")
    ELSE Result([d EXCEPT !.playlists =
                    SelectSeq(@, LAMBDA p : p.id /= playlist_id)], "ok")

\* rename_playlist that assigns the name before it looks for a collision
rename_write_first(d, playlist_id, new_name) ==
    LET i == get_playlist_by_id(d, playlist_id)
        e == get_playlist_by_name(d, new_name) IN
    IF i = 0 THEN Result(d, "NotFound")
    ELSE IF d.playlists[i].is_master THEN Result(d, "MasterProtected")
    ELSE IF e /= 0 /\ d.playlists[e].id /= playlist_id
         THEN Result([d EXCEPT !.playlists[i].name = new_name], "Duplicate")
    ELSE Result([d EXCEPT !.playlists[i].name = new_name], "ok")

rename_playlist(d, playlist_id, new_name) ==
    LET i == get_playlist_by_id(d, playlist_id)
        e == get_playlist_by_name(d, new_name) IN
    IF i = 0 THEN Result(d, "NotFound")
    ELSE IF d.playlists[i].is_master THEN Result(d, "MasterProtected")
    ELSE IF e /= 0 /\ d.playlists[e].id /= playlist_id THEN Result(d, "Duplicate")
    ELSE Result([d EXCEPT !.playlists[i].name = new_name], "ok")

\* add_track_to_playlist without the check of lines 137-140
add_track_unchecked(d, playlist_id, track_id, position) ==
    LET i == get_playlist_by_id(d, playlist_id) IN
    IF i = 0 THEN Result(d, "NotFound")
    ELSE IF track_id \in Range(d.playlists[i].track_ids)
         THEN Result(d, "AlreadyPresent")
    ELSE IF position = <<>>
         THEN Result([d EXCEPT !.playlists[i].track_ids = Append(@, track_id)], "ok")
    ELSE Result([d EXCEPT !.playlists[i].track_ids =
                    ListInsert(@, position[1], track_id)], "ok")

\* position is <<>> for the omitted keyword argument (None), <<p>> otherwise
add_track_to_playlist(d, playlist_id, track_id, position) ==
    LET i == get_playlist_by_id(d, playlist_id) IN
    IF i = 0 THEN Result(d, "NotFound")
    ELSE IF get_track_by_id(d, track_id) = 0 THEN Result(d, "TrackNotFound")
    ELSE IF track_id \in Range(d.playlists[i].track_ids)
         THEN Result(d, "AlreadyPresent")
    ELSE IF position = <<>>
         THEN Result([d EXCEPT !.playlists[i].track_ids = Append(@, track_id)], "ok")
    ELSE Result([d EXCEPT !.playlists[i].track_ids =
                    ListInsert(@, position[1], track_id)], "ok")

remove_track_from_playlist(d, playlist_id, track_id) ==
    LET i == get_playlist_by_id(d, playlist_id) IN
    IF i = 0 THEN Result(d, "NotFound")
    ELSE IF track_id \notin Range(d.playlists[i].track_ids)
         THEN Result(d, "NotPresent")
    ELSE Result([d EXCEPT !.playlists[i].track_ids = Without(@, track_id)], "ok")

reorder_playlist(d, playlist_id, track_ids) ==
    LET i == get_playlist_by_id(d, playlist_id) IN
    IF i = 0 THEN Result(d, "NotFound")
    ELSE IF Range(track_ids) /= Range(d.playlists[i].track_ids)
         THEN Result(d, "OrderMismatch")
    ELSE Result([d EXCEPT !.playlists[i].track_ids = track_ids], "ok")

\* move_track_in_playlist without the clamp of line 226
move_track_unclamped(d, playlist_id, track_id, new_position) ==
    LET i == get_playlist_by_id(d, playlist_id) IN
    IF i = 0 THEN Result(d, "NotFound")
    ELSE IF track_id \notin Range(d.playlists[i].track_ids)
         THEN Result(d, "NotPresent")
    ELSE Result([d EXCEPT !.playlists[i].track_ids =
                    ListInsert(Without(@, track_id), new_position, track_id)], "ok")

move_track_in_playlist(d, playlist_id, track_id, new_position) ==
    LET i == get_playlist_by_id(d, playlist_id) IN
    IF i = 0 THEN Result(d, "NotFound")
    ELSE IF track_id \notin Range(d.playlists[i].track_ids)
         THEN Result(d, "NotPresent")
    ELSE LET rest == Without(d.playlists[i].track_ids, track_id)
             lim == IF new_position < Len(rest) THEN new_position ELSE Len(rest)
             pos == IF lim > 0 THEN lim ELSE 0
         IN Result([d EXCEPT !.playlists[i].track_ids =
                       ListInsert(rest, pos, track_id)], "ok")

\* clear_playlist without the check of lines 262-263
clear_playlist_unprotected(d, playlist_id) ==
    LET i == get_playlist_by_id(d, playlist_id) IN
    IF i = 0 THEN Result(d, "NotFound")
    ELSE Result([d EXCEPT !.playlists[i].track_ids = <<>>], "ok")

clear_playlist(d, playlist_id) ==
    LET i == get_playlist_by_id(d, playlist_id) IN
    IF i = 0 THEN Result(d, "NotFound")
    ELSE IF d.playlists[i].is_master THEN Result(d, "MasterProtected")
    ELSE Result([d EXCEPT !.playlists[i].track_ids = <<>>], "ok")

duplicate_playlist(d, playlist_id, new_name) ==
    LET i == get_playlist_by_id(d, playlist_id) IN
    IF i = 0 THEN Result(d, "NotFound")
    ELSE IF get_playlist_by_name(d, new_name) /= 0 THEN Result(d, "Duplicate")
    ELSE Result([d EXCEPT !.playlists =
                    Append(@, [Playlist(next_playlist_id(d), new_name,
                                        d.playlists[i].track_ids, FALSE)
                                  EXCEPT !.sort_order = d.playlists[i].sort_order])],
                "ok")

\* ------------------------------------------------------------------------
\* device.py / sync.py
\* ------------------------------------------------------------------------
\* f"F{i:02d}"
FolderName(i) == <<"F", Digit[(i \div 10) + 1], Digit[(i % 10) + 1]>>

\* device.music_dir / folder / filename, relative to device.mount_point
MusicFile(i, filename) ==
    <<"iPod_Control", "/", "Music", "/">> \o FolderName(i) \o <<"/">> \o filename

\* len(list(folder.iterdir()))
EntryCount(fs, i) ==
    LET folder == MusicFile(i, <<>>)
    IN Cardinality({f \in fs : /\ Len(f) > Len(folder)
                               /\ SubSeq(f, 1, Len(folder)) = folder})

ensure_music_folders(fl) == fl \cup (0..(NumFolders - 1))

\* float("inf")
Inf == -1

\* the loop of select_music_folder that also takes a folder with as many
\* entries as the fewest so far
RECURSIVE ScanFoldersLast(_, _, _, _)
ScanFoldersLast(fs, i, min_count, selected) ==
    IF i = NumFolders THEN selected
    ELSE LET count == EntryCount(fs, i) IN
         IF min_count = Inf \/ count <= min_count
         THEN ScanFoldersLast(fs, i + 1, count, i)
         ELSE ScanFoldersLast(fs, i + 1, min_count, selected)

\* the loop of lines 75-83 from folder i on; every folder exists and can be
\* listed after ensure_music_folders
RECURSIVE ScanFolders(_, _, _, _)
ScanFolders(fs, i, min_count, selected) ==
    IF i = NumFolders THEN selected
    ELSE LET count == EntryCount(fs, i) IN
         IF min_count = Inf \/ count < min_count
         THEN ScanFolders(fs, i + 1, count, i)
         ELSE ScanFolders(fs, i + 1, min_count, selected)

select_music_folder(fs) == ScanFolders(fs, 0, Inf, 0)

SUPPORTED_EXTENSIONS == {".mp3", ".m4a", ".m4p", ".aac", ".mp4"}

\* str.lstrip(":")
LStripColon(path) ==
    LET k == FirstIndex(path, LAMBDA c : c /= ":")
    IN IF k = 0 THEN <<>> ELSE SubSeq(path, k, Len(path))

\* str.replace(":", "/")
ColonToSlash(path) == [i \in 1..Len(path) |-> IF path[i] = ":" THEN "/" ELSE path[i]]

SyncResult(d, fl, fs, e) == [db |-> d, folders |-> fl, files |-> fs, err |-> e]

\* source: the file to copy, [ext, title, artist, album] (its suffix and what
\* read_metadata returns for it); dest_filename: the draw of generate_filename
\* that left the collision loop; copy: how shutil.copy2 ended
\* sync_file that registers the track before it copies the file
sync_file_registers_first(d, fl, fs, source, check_duplicate, dest_filename, copy) ==
    IF source.ext \notin SUPPORTED_EXTENSIONS
    THEN SyncResult(d, fl, fs, "UnsupportedFormat")
    ELSE IF check_duplicate /\ \E i \in 1..Len(d.tracks) :
                /\ d.tracks[i].title = source.title
                /\ d.tracks[i].artist = source.artist
                /\ d.tracks[i].album = source.album
    THEN SyncResult(d, fl, fs, "AlreadyExists")
    ELSE
      LET fl2 == ensure_music_folders(fl)
          dest_folder == select_music_folder(fs)
          dest_path == MusicFile(dest_folder, dest_filename)
          ipod_path == <<":", "iPod_Control", ":", "Music", ":">>
                          \o FolderName(dest_folder) \o <<":">> \o dest_filename
          track == Track(next_track_id(d), source.title, source.artist,
                         source.album, ipod_path)
          m == get_master_playlist(d)
          d1 == [d EXCEPT !.tracks = Append(@, track)]
          d2 == IF m /= 0
                THEN [d1 EXCEPT !.playlists[m].track_ids = Append(@, track.id)]
                ELSE d1
      IN IF copy = "failed" THEN SyncResult(d2, fl2, fs, "IOFailed")
         ELSE IF copy = "partial"
              THEN SyncResult(d2, fl2, fs \cup {dest_path}, "IOFailed")
         ELSE SyncResult(d2, fl2, fs \cup {dest_path}, "ok")

\* sync_file that puts the new id in front of the master's track_ids
sync_file_master_front(d, fl, fs, source, check_duplicate, dest_filename, copy) ==
    IF source.ext \notin SUPPORTED_EXTENSIONS
    THEN SyncResult(d, fl, fs, "UnsupportedFormat")
    ELSE IF check_duplicate /\ \E i \in 1..Len(d.tracks) :
                /\ d.tracks[i].title = source.title
                /\ d.tracks[i].artist = source.artist
                /\ d.tracks[i].album = source.album
    THEN SyncResult(d, fl, fs, "AlreadyExists")
    ELSE
      LET fl2 == ensure_music_folders(fl)
          dest_folder == select_music_folder(fs)
          dest_path == MusicFile(dest_folder, dest_filename)
          ipod_path == <<":", "iPod_Control", ":", "Music", ":">>
                          \o FolderName(dest_folder) \o <<":">> \o dest_filename
          track == Track(next_track_id(d), source.title, source.artist,
                         source.album, ipod_path)
          m == get_master_playlist(d)
          d1 == [d EXCEPT !.tracks = Append(@, track)]
          d2 == IF m /= 0
                THEN [d1 EXCEPT !.playlists[m].track_ids = <<track.id>> \o @]
                ELSE d1
      IN IF copy = "failed" THEN SyncResult(d, fl2, fs, "IOFailed")
         ELSE IF copy = "partial"
              THEN SyncResult(d, fl2, fs \cup {dest_path}, "IOFailed")
         ELSE SyncResult(d2, fl2, fs \cup {dest_path}, "ok")

sync_file(d, fl, fs, source, check_duplicate, dest_filename, copy) ==
    IF source.ext \notin SUPPORTED_EXTENSIONS
    THEN SyncResult(d, fl, fs, "UnsupportedFormat")
    ELSE IF check_duplicate /\ \E i \in 1..Len(d.tracks) :
                /\ d.tracks[i].title = source.title
                /\ d.tracks[i].artist = source.artist
                /\ d.tracks[i].album = source.album
    THEN SyncResult(d, fl, fs, "AlreadyExists")
    ELSE
      LET fl2 == ensure_music_folders(fl)
          dest_folder == select_music_folder(fs)
          dest_path == MusicFile(dest_folder, dest_filename)
          ipod_path == <<":", "iPod_Control", ":", "Music", ":">>
                          \o FolderName(dest_folder) \o <<":">> \o dest_filename
          track == Track(next_track_id(d), source.title, source.artist,
                         source.album, ipod_path)
          m == get_master_playlist(d)
          d1 == [d EXCEPT !.tracks = Append(@, track)]
          d2 == IF m /= 0
                THEN [d1 EXCEPT !.playlists[m].track_ids = Append(@, track.id)]
                ELSE d1
      IN IF copy = "failed" THEN SyncResult(d, fl2, fs, "IOFailed")
         ELSE IF copy = "partial"
              THEN SyncResult(d, fl2, fs \cup {dest_path}, "IOFailed")
         ELSE SyncResult(d2, fl2, fs \cup {dest_path}, "ok")

\* remove_track that leaves the playlists alone
remove_track_no_cascade(d, fs, track, unlink_ok) ==
    LET file_path == ColonToSlash(LStripColon(track.path))
        fs2 == IF track.path /= <<>> /\ file_path \in fs /\ unlink_ok
               THEN fs \ {file_path} ELSE fs
    IN [db |-> [d EXCEPT !.tracks = SelectSeq(@, LAMBDA t : t.id /= track.id)],
        files |-> fs2]

\* track: the Track object handed in; unlink_ok: whether file_path.unlink()
\* succeeded (an OSError is suppressed)
remove_track(d, fs, track, unlink_ok) ==
    LET file_path == ColonToSlash(LStripColon(track.path))
        fs2 == IF track.path /= <<>> /\ file_path \in fs /\ unlink_ok
               THEN fs \ {file_path} ELSE fs
        d1 == [d EXCEPT !.tracks = SelectSeq(@, LAMBDA t : t.id /= track.id)]
        d2 == [d1 EXCEPT !.playlists =
                  [i \in 1..Len(d1.playlists) |->
                      [d1.playlists[i] EXCEPT !.track_ids = Without(@, track.id)]]]
    IN [db |-> d2, files |-> fs2]

\* ------------------------------------------------------------------------
\* db/parser.py: serializer.  The bytes are kept as the tree of atoms they
\* spell: mhbd > (mhlt > mhit* > mhod*), (mhlp > mhyp* > mhod*, mhip*)
\* ------------------------------------------------------------------------
TITLE == 1
LOCATION == 2
ALBUM == 3
ARTIST == 4
GENRE == 5
COMMENT == 8
COMPOSER == 12
ALBUM_ARTIST == 22

\* encode_path: the largest len(encoded) that is accepted
MAX_PATH_BYTES == 112

\* encode_path that leaves the slashes of the path
NormalizeKeepsSlashes(path) ==
    IF path /= <<>> /\ Head(path) = ":" THEN path ELSE <<":">> \o path

\* encode_path, lines 308-311: a leading colon, colons for slashes. A path is
\* the sequence of its separators and of the names between them.
NormalizePath(path) ==
    LET p == IF path /= <<>> /\ Head(path) = ":" THEN path ELSE <<":">> \o path
    IN [i \in 1..Len(p) |-> IF p[i] = "/" THEN ":" ELSE p[i]]

\* the UTF-16LE code units of the characters of a name or separator
Utf16(token) == [utf16le |-> token]

\* len(encoded): two bytes for each code unit
RECURSIVE EncodedLength(_)
EncodedLength(encoded) ==
    IF encoded = <<>> THEN 0
    ELSE 2 * Len(Head(encoded).utf16le) + EncodedLength(Tail(encoded))

\* encode_path raised ValueError("Path too long for iTunesDB: ...")
PathTooLong == <<[raised |-> "ValueError: Path too long for iTunesDB"]>>

\* encode_path that accepts one byte less
encode_path_strict(path) ==
    LET encoded == [i \in 1..Len(NormalizePath(path)) |->
                       Utf16(NormalizePath(path)[i])]
    IN IF EncodedLength(encoded) >= MAX_PATH_BYTES THEN PathTooLong
       ELSE encoded

\* db/atoms.py encode_path, lines 302-316
encode_path(path) ==
    LET encoded == [i \in 1..Len(NormalizePath(path)) |->
                       Utf16(NormalizePath(path)[i])]
    IN IF EncodedLength(encoded) > MAX_PATH_BYTES THEN PathTooLong
       ELSE encoded

\* db/atoms.py decode_path: data.decode("utf-16-le")
decode_path(bytes) == [i \in 1..Len(bytes) |-> bytes[i].utf16le]

\* a string travels as the one-token sequence <<s>>, "" as <<>>
Str(s) == IF s = "" THEN <<>> ELSE <<s>>

UnStr(bytes) == IF bytes = <<>> THEN "" ELSE bytes[1]

_build_string_mhod(mhod_type, value) ==
    [type |-> mhod_type,
     string |-> IF mhod_type = LOCATION THEN encode_path(value) ELSE value]

\* the mhod of a string field, none when the string is empty
StringMhods(mhod_type, value) ==
    IF value /= "" THEN <<_build_string_mhod(mhod_type, Str(value))>> ELSE <<>>

\* struct.pack("<I", n << 16) for n below 2^16: the two 16-bit halves
Shl16(n) == [hi |-> n, lo |-> 0]

\* The header fields that carry a Track field, then one mhod per non-empty
\* string; r is the draw of random.randint(1, 2**63 - 1) for a zero dbid.
\* Fields written as constants and the three timestamps are left out.
_build_mhit(track, r) ==
    [unique_id |-> track.id,
     file_type |-> FileType[track.file_type],
     compilation |-> IF track.compilation THEN 1 ELSE 0,
     rating |-> track.rating,
     size |-> track.size_bytes,
     length |-> track.duration_ms,
     track_number |-> track.track_number,
     total_tracks |-> track.total_tracks,
     year |-> track.year,
     bitrate |-> track.bitrate,
     sample_rate |-> Shl16(track.sample_rate),
     play_count |-> track.play_count,
     disc_number |-> track.disc_number,
     total_discs |-> track.total_discs,
     dbid |-> IF track.dbid /= 0 THEN track.dbid ELSE r,
     skip_count |-> track.skip_count,
     pregap |-> track.pregap,
     sample_count |-> track.sample_count,
     postgap |-> track.postgap,
     media_type |-> MediaType[track.media_type],
     gapless_data |-> track.gapless_data,
     gapless_track_flag |-> IF track.gapless_track_flag THEN 1 ELSE 0,
     gapless_album_flag |-> IF track.gapless_album_flag THEN 1 ELSE 0,
     mhods |->
        StringMhods(TITLE, track.title)
        \o (IF track.path /= <<>> THEN <<_build_string_mhod(LOCATION, track.path)>>
                                  ELSE <<>>)
        \o StringMhods(ARTIST, track.artist)
        \o StringMhods(ALBUM, track.album)
        \o StringMhods(ALBUM_ARTIST, track.album_artist)
        \o StringMhods(GENRE, track.genre)
        \o StringMhods(COMPOSER, track.composer)
        \o StringMhods(COMMENT, track.comment)]

_build_mhip(track_id, position) ==
    [track_id |-> track_id, group_id |-> position + 1]

\* _build_mhyp that writes the sort order of a manual playlist for every one
_build_mhyp_manual(playlist) ==
    [is_master |-> IF playlist.is_master THEN 1 ELSE 0,
     playlist_id |-> playlist.id,
     podcast_flag |-> IF playlist.is_podcast THEN 1 ELSE 0,
     sort_order |-> SortOrder["MANUAL"],
     mhods |-> IF ~playlist.is_master /\ playlist.name /= ""
               THEN <<_build_string_mhod(TITLE, Str(playlist.name))>> ELSE <<>>,
     mhips |-> [i \in 1..Len(playlist.track_ids) |->
                   _build_mhip(playlist.track_ids[i], i - 1)]]

_build_mhyp(playlist) ==
    [is_master |-> IF playlist.is_master THEN 1 ELSE 0,
     playlist_id |-> playlist.id,
     podcast_flag |-> IF playlist.is_podcast THEN 1 ELSE 0,
     sort_order |-> SortOrder[playlist.sort_order],
     mhods |-> IF ~playlist.is_master /\ playlist.name /= ""
               THEN <<_build_string_mhod(TITLE, Str(playlist.name))>> ELSE <<>>,
     mhips |-> [i \in 1..Len(playlist.track_ids) |->
                   _build_mhip(playlist.track_ids[i], i - 1)]]

\* _build_database that synthesizes a master without looking for one
PrepareAlwaysInsert(d, r1, r2) ==
    LET ids == [i \in 1..Len(d.tracks) |-> d.tracks[i].id]
        d1 == [d EXCEPT !.playlists =
                  <<Playlist(next_playlist_id(d), "Library", ids, TRUE)>> \o @]
        d2 == IF d1.database_id = 0 THEN [d1 EXCEPT !.database_id = r1] ELSE d1
    IN IF d2.library_persistent_id = 0
       THEN [d2 EXCEPT !.library_persistent_id = r2] ELSE d2

\* _build_database that refreshes every playlist, not only the master
PrepareRefreshesAll(d, r1, r2) ==
    LET m == get_master_playlist(d)
        ids == [i \in 1..Len(d.tracks) |-> d.tracks[i].id]
        d1 == IF m = 0
              THEN [d EXCEPT !.playlists =
                       <<Playlist(next_playlist_id(d), "Library", ids, TRUE)>> \o @]
              ELSE [d EXCEPT !.playlists =
                       [i \in 1..Len(@) |-> [@[i] EXCEPT !.track_ids = ids]]]
        d2 == IF d1.database_id = 0 THEN [d1 EXCEPT !.database_id = r1] ELSE d1
    IN IF d2.library_persistent_id = 0
       THEN [d2 EXCEPT !.library_persistent_id = r2] ELSE d2

\* _build_database that leaves an existing master as it finds it
PrepareNoRefresh(d, r1, r2) ==
    LET m == get_master_playlist(d)
        ids == [i \in 1..Len(d.tracks) |-> d.tracks[i].id]
        d1 == IF m = 0
              THEN [d EXCEPT !.playlists =
                       <<Playlist(next_playlist_id(d), "Library", ids, TRUE)>> \o @]
              ELSE d
        d2 == IF d1.database_id = 0 THEN [d1 EXCEPT !.database_id = r1] ELSE d1
    IN IF d2.library_persistent_id = 0
       THEN [d2 EXCEPT !.library_persistent_id = r2] ELSE d2

\* lines 553-571: what _build_database does to the library before it emits a
\* byte; r1, r2 are the two draws of random.randint(1, 2**63 - 1)
PrepareDatabase(d, r1, r2) ==
    LET m == get_master_playlist(d)
        ids == [i \in 1..Len(d.tracks) |-> d.tracks[i].id]
        d1 == IF m = 0
              THEN [d EXCEPT !.playlists =
                       <<Playlist(next_playlist_id(d), "Library", ids, TRUE)>> \o @]
              ELSE [d EXCEPT !.playlists[m].track_ids = ids]
        d2 == IF d1.database_id = 0 THEN [d1 EXCEPT !.database_id = r1] ELSE d1
    IN IF d2.library_persistent_id = 0
       THEN [d2 EXCEPT !.library_persistent_id = r2] ELSE d2

\* the draws of _build_mhit, one for each track of the library
Draws(d) == [1..Len(d.tracks) -> RandomIds]

\* lines 573-604: the bytes of the prepared library; rnd[i] is the draw of
\* _build_mhit for the i-th track
_build_database(d, rnd) ==
    [database_id |-> d.database_id,
     library_persistent_id |-> d.library_persistent_id,
     mhlt |-> [i \in 1..Len(d.tracks) |-> _build_mhit(d.tracks[i], rnd[i])],
     mhlp |-> [i \in 1..Len(d.playlists) |-> _build_mhyp(d.playlists[i])]]

\* ------------------------------------------------------------------------
\* db/parser.py: parser
\* ------------------------------------------------------------------------
\* the string of the last mhod of the given type, default when there is none
MhodValue(mhods, mhod_type, default) ==
    LET S == {i \in 1..Len(mhods) : mhods[i].type = mhod_type}
    IN IF S = {} THEN default ELSE mhods[Max(S)].string

parse_mhit(mhit) ==
    [id |-> mhit.unique_id,
     title |-> UnStr(MhodValue(mhit.mhods, TITLE, <<>>)),
     artist |-> UnStr(MhodValue(mhit.mhods, ARTIST, <<>>)),
     album |-> UnStr(MhodValue(mhit.mhods, ALBUM, <<>>)),
     album_artist |-> UnStr(MhodValue(mhit.mhods, ALBUM_ARTIST, <<>>)),
     genre |-> UnStr(MhodValue(mhit.mhods, GENRE, <<>>)),
     composer |-> UnStr(MhodValue(mhit.mhods, COMPOSER, <<>>)),
     comment |-> UnStr(MhodValue(mhit.mhods, COMMENT, <<>>)),
     path |-> decode_path(MhodValue(mhit.mhods, LOCATION, <<>>)),
     duration_ms |-> mhit.length,
     bitrate |-> mhit.bitrate,
     sample_rate |-> IF mhit.sample_rate /= Shl16(0) THEN mhit.sample_rate.hi
                     ELSE 44100,
     size_bytes |-> mhit.size,
     track_number |-> mhit.track_number,
     total_tracks |-> mhit.total_tracks,
     disc_number |-> IF mhit.disc_number /= 0 THEN mhit.disc_number ELSE 1,
     total_discs |-> IF mhit.total_discs /= 0 THEN mhit.total_discs ELSE 1,
     year |-> mhit.year,
     rating |-> mhit.rating,
     play_count |-> mhit.play_count,
     skip_count |-> mhit.skip_count,
     file_type |-> EnumOf(FileType, mhit.file_type, "MP3"),
     media_type |-> EnumOf(MediaType, mhit.media_type, "AUDIO"),
     compilation |-> mhit.compilation /= 0,
     dbid |-> mhit.dbid,
     pregap |-> mhit.pregap,
     postgap |-> mhit.postgap,
     sample_count |-> mhit.sample_count,
     gapless_data |-> mhit.gapless_data,
     gapless_track_flag |-> mhit.gapless_track_flag /= 0,
     gapless_album_flag |-> mhit.gapless_album_flag /= 0]

\* playlist_id & 0xFFFFFFFF leaves the ids of this model (all below 2^31, the
\* largest integer of the checker) as they are
parse_mhyp(mhyp) ==
    [id |-> mhyp.playlist_id,
     name |-> UnStr(MhodValue(mhyp.mhods, TITLE, <<>>)),
     track_ids |-> [i \in 1..Len(mhyp.mhips) |-> mhyp.mhips[i].track_id],
     is_master |-> mhyp.is_master /= 0,
     is_podcast |-> mhyp.podcast_flag /= 0,
     sort_order |-> EnumOf(SortOrder, mhyp.sort_order, "MANUAL")]

_parse_database(image) ==
    [database_id |-> image.database_id,
     library_persistent_id |-> image.library_persistent_id,
     tracks |-> [i \in 1..Len(image.mhlt) |-> parse_mhit(image.mhlt[i])],
     playlists |-> [i \in 1..Len(image.mhlp) |-> parse_mhyp(image.mhlp[i])]]

\* ------------------------------------------------------------------------
\* Files: absent, a partial write, or a complete image
\* ------------------------------------------------------------------------
NoImage == _build_database(Database, <<>>)

Absent == [exists |-> FALSE, complete |-> FALSE, image |-> NoImage]

Partial == [exists |-> TRUE, complete |-> FALSE, image |-> NoImage]

Complete(image) == [exists |-> TRUE, complete |-> TRUE, image |-> image]

\* load(path), for a path that holds a complete image
load(file) == _parse_database(file.image)

\* ------------------------------------------------------------------------
\* The state machine
\* ------------------------------------------------------------------------
Returned(op, err) == [op |-> op, err |-> err]

\* the bounds of the model, as a guard on the library a call leaves behind
WithinBounds(d) ==
    /\ Len(d.tracks) <= MaxTracks
    /\ \A i \in 1..Len(d.tracks) : d.tracks[i].id <= MaxTrackId
    /\ Len(d.playlists) <= MaxPlaylists
    /\ \A i \in 1..Len(d.playlists) : d.playlists[i].id <= MaxPlaylistId

Sources == [ext : Extensions, title : Titles, artist : Artists, album : Albums]

Filenames == {<<n, e>> : n \in RandomNames, e \in Extensions}

\* Track objects a caller may still hold: those of the library, and stale
\* ones with any id, without a path or with the path of a synced file
TrackObjects(d) ==
    Range(d.tracks) \cup
    {Track(id, "Song One", a, al, path) :
        id \in TrackIds, a \in Artists, al \in Albums,
        path \in {<<>>} \cup
                 {<<":", "iPod_Control", ":", "Music", ":">> \o FolderName(i)
                     \o <<":", "AAAA", ".mp3">> : i \in 0..(NumFolders - 1)}}

\* a call of the playlist API: r is what the operation computed
\* (the bounds stop the calls that add a playlist)
PlaylistCall(op, r) ==
    /\ pc = "idle"
    /\ Len(r.db.playlists) > Len(db.playlists) => WithinBounds(r.db)
    /\ db' = r.db
    /\ last' = Returned(op, r.err)
    /\ UNCHANGED <<folders, files, dbfile, tmpfile, data, pc, batch, parse, codec, copying>>

CreatePlaylist ==
    \E name \in PlaylistNames :
        PlaylistCall("create_playlist", create_playlist(db, name))

DeletePlaylist ==
    \E playlist_id \in PlaylistIds :
        PlaylistCall("delete_playlist", delete_playlist(db, playlist_id))

RenamePlaylist ==
    \E playlist_id \in PlaylistIds, new_name \in PlaylistNames :
        PlaylistCall("rename_playlist", rename_playlist(db, playlist_id, new_name))

AddTrackToPlaylist ==
    \E playlist_id \in PlaylistIds, track_id \in TrackIds,
       position \in {<<>>} \cup {<<p>> : p \in Positions} :
        PlaylistCall("add_track_to_playlist",
                     add_track_to_playlist(db, playlist_id, track_id, position))

RemoveTrackFromPlaylist ==
    \E playlist_id \in PlaylistIds, track_id \in TrackIds :
        PlaylistCall("remove_track_from_playlist",
                     remove_track_from_playlist(db, playlist_id, track_id))

ReorderPlaylist ==
    \E playlist_id \in PlaylistIds, track_ids \in SeqsUpTo(TrackIds, MaxOrderLen) :
        PlaylistCall("reorder_playlist", reorder_playlist(db, playlist_id, track_ids))

MoveTrackInPlaylist ==
    \E playlist_id \in PlaylistIds, track_id \in TrackIds, new_position \in Positions :
        PlaylistCall("move_track_in_playlist",
                     move_track_in_playlist(db, playlist_id, track_id, new_position))

ClearPlaylist ==
    \E playlist_id \in PlaylistIds :
        PlaylistCall("clear_playlist", clear_playlist(db, playlist_id))

DuplicatePlaylist ==
    \E playlist_id \in PlaylistIds, new_name \in PlaylistNames :
        PlaylistCall("duplicate_playlist",
                     duplicate_playlist(db, playlist_id, new_name))

\* sync_file(device, db, source, check_duplicate=...): name is a draw of
\* generate_filename that is free in the selected folder (the loop of lines
\* 344-346 ends on such a draw), copy is how shutil.copy2 ends
SyncFileOf(sources, names, copies) ==
    \E source \in sources, check_duplicate \in BOOLEAN,
       name \in names, copy \in copies :
        LET dest_filename == <<name, source.ext>>
            r == sync_file(db, folders, files, source, check_duplicate,
                           dest_filename, copy)
        IN /\ pc = "idle"
           /\ MusicFile(select_music_folder(files), dest_filename) \notin files
           /\ WithinBounds(r.db)
           /\ db' = r.db
           /\ folders' = r.folders
           /\ files' = r.files
           /\ last' = Returned("sync_file", r.err)
           /\ UNCHANGED <<dbfile, tmpfile, data, pc, batch, parse, codec, copying>>

\* remove_track(device, db, track)
RemoveTrackOf(tracks, unlinks) ==
    \E track \in tracks, unlink_ok \in unlinks :
        LET r == remove_track(db, files, track, unlink_ok)
        IN /\ pc = "idle"
           /\ db' = r.db
           /\ files' = r.files
           /\ last' = Returned("remove_track", "ok")
           /\ UNCHANGED <<folders, dbfile, tmpfile, data, pc, batch, parse, codec, copying>>

\* The library-level specifications draw one title and one filename, let the
\* copy succeed or fail without a trace, and remove tracks of the library: the
\* library that sync_file and remove_track leave depends on nothing else.
LibSources == {s \in Sources : s.title = "Song One"}

SyncFile == SyncFileOf(LibSources, {"AAAA"}, {"ok", "failed"})

RemoveTrack == RemoveTrackOf(Range(db.tracks), {TRUE})

\* The device-level specification draws every input.
SyncFileAny == SyncFileOf(Sources, {"AAAA"}, {"ok", "failed", "partial"})

RemoveTrackAny == RemoveTrackOf(TrackObjects(db), BOOLEAN)

\* save, line 535: _build_database(db) returns the bytes, or raises after it
\* has prepared the library (struct.pack and encode_path reject values that do
\* not fit their field)
BuildStepOf(dbids) ==
    \E r1 \in RandomIds, r2 \in RandomIds, rnd \in [1..Len(db.tracks) -> dbids],
       packs \in BOOLEAN :
        LET d == PrepareDatabase(db, r1, r2)
        IN /\ pc = "idle"
           /\ WithinBounds(d)
           /\ packs => \A i \in 1..Len(d.tracks) :
                         \/ d.tracks[i].path = <<>>
                         \/ encode_path(d.tracks[i].path) /= PathTooLong
           /\ db' = d
           /\ IF packs
              THEN /\ data' = _build_database(d, rnd)
                   /\ pc' = "built"
                   /\ last' = Returned("save", "running")
              ELSE /\ data' = NoImage
                   /\ pc' = "idle"
                   /\ last' = Returned("save", "SerializeFailed")
           /\ UNCHANGED <<folders, files, dbfile, tmpfile, parse, codec, copying>>

BuildStep == BuildStepOf(RandomIds)

\* save called while no sync_folder changes hands
SaveBuild == BuildStep /\ UNCHANGED <<batch, parse, codec, copying>>

\* save, lines 540-541: open(temp_path, "wb") and f.write(data)
SaveWrite ==
    /\ pc = "built"
    /\ \E outcome \in {"ok", "open_failed", "write_failed"} :
          /\ tmpfile' = IF outcome = "ok" THEN Complete(data)
                        ELSE IF outcome = "write_failed" THEN Partial
                        ELSE tmpfile
          /\ pc' = IF outcome = "ok" THEN "written" ELSE "failed"
    /\ UNCHANGED <<db, folders, files, dbfile, data, last, batch, parse, codec, copying>>

\* save, line 542: temp_path.rename(path)
SaveRename ==
    /\ pc = "written"
    /\ \E renamed \in BOOLEAN :
          IF renamed
          THEN /\ dbfile' = tmpfile
               /\ tmpfile' = Absent
               /\ pc' = "idle"
               /\ data' = NoImage
               /\ last' = Returned("save", "ok")
          ELSE /\ pc' = "failed"
               /\ UNCHANGED <<dbfile, tmpfile, data, last, batch, parse, codec, copying>>
    /\ UNCHANGED <<db, folders, files, batch, parse, codec, copying>>

\* save whose handler re-raises without unlinking the temp file
SaveFailedKeepsTemp ==
    /\ pc = "failed"
    /\ pc' = "idle"
    /\ data' = NoImage
    /\ last' = Returned("save", "IOFailed")
    /\ UNCHANGED <<db, folders, files, dbfile, tmpfile, batch, parse, codec, copying>>

\* save, lines 543-546: unlink the temp file if it exists, re-raise
SaveFailed ==
    /\ pc = "failed"
    /\ tmpfile' = Absent
    /\ pc' = "idle"
    /\ data' = NoImage
    /\ last' = Returned("save", "IOFailed")
    /\ UNCHANGED <<db, folders, files, dbfile, batch, parse, codec, copying>>

\* load(device.db_path) of app.py, _connect_device, for a file that exists
Load ==
    /\ pc = "idle"
    /\ dbfile.exists
    /\ db' = load(dbfile)
    /\ last' = Returned("load", "ok")
    /\ UNCHANGED <<folders, files, dbfile, tmpfile, data, pc, batch, parse, codec, copying>>

\* ------------------------------------------------------------------------
\* sync_folder (sync.py) and the folder-sync worker of the main screen
\* ------------------------------------------------------------------------
\* The files of a source folder, named by the rank of their path in the order
\* of Path.__lt__: two files with the same tags, a third with other tags and
\* one that is no audio file.
FolderContent ==
    <<[ext |-> ".mp3", title |-> "Song One", artist |-> "Artist A",
       album |-> "Album X"],
      [ext |-> ".mp3", title |-> "Song One", artist |-> "Artist A",
       album |-> "Album X"],
      [ext |-> ".mp3", title |-> "Song Two", artist |-> "Artist A",
       album |-> "Album X"],
      [ext |-> ".txt", title |-> "Song Two", artist |-> "Artist A",
       album |-> "Album X"]>>

FolderPaths == 1..Len(FolderContent)

\* music_files.sort(): the paths of S in ascending order
RECURSIVE Sorted(_)
Sorted(S) ==
    IF S = {} THEN <<>>
    ELSE LET least == CHOOSE x \in S : \A y \in S : x <= y
         IN <<least>> \o Sorted(S \ {least})

\* [f for f in files if f.is_file() and f.suffix.lower() in SUPPORTED_EXTENSIONS]
MusicFiles(S) == {f \in S : FolderContent[f].ext \in SUPPORTED_EXTENSIONS}

\* no sync_folder was called yet
NoBatch ==
    [state |-> "none", folder |-> {}, folder_name |-> "",
     create_playlist |-> FALSE, music_files |-> <<>>, total |-> 0,
     progress |-> <<>>, attempts |-> <<>>, synced |-> <<>>, errors |-> <<>>,
     cancelled |-> FALSE, in_progress |-> 0, kept |-> <<>>, returned |-> <<>>]

Running(b) == b.state \in {"callback", "attempt", "finish"}

\* sync_folder, lines 470-482: collect the files, keep the supported ones,
\* sort them by path
SyncFolderStart ==
    \E folder \in SUBSET FolderPaths, folder_name \in PlaylistNames,
       create \in BOOLEAN :
        LET music_files == Sorted(MusicFiles(folder))
        IN /\ batch.state = "none"
           /\ pc = "idle"
           /\ batch' = [NoBatch EXCEPT
                          !.state = IF music_files = <<>> THEN "finish"
                                    ELSE "callback",
                          !.folder = folder,
                          !.folder_name = folder_name,
                          !.create_playlist = create,
                          !.music_files = music_files,
                          !.total = Len(music_files)]
           /\ last' = Returned("sync_folder", "running")
           /\ UNCHANGED <<db, folders, files, dbfile, tmpfile, data, pc, parse, codec, copying>>

\* sync_folder, lines 483-485: progress_callback(i, total, file.name); the
\* keyword error is never passed
SyncFolderProgress ==
    /\ batch.state = "callback"
    /\ LET i == Len(batch.attempts) + 1
       IN batch' = [batch EXCEPT
                      !.state = "attempt",
                      !.progress = Append(@, [current |-> i,
                                              total |-> batch.total,
                                              filename |-> batch.music_files[i],
                                              error |-> "None"])]
    /\ UNCHANGED <<db, folders, files, dbfile, tmpfile, data, pc, last, parse, codec, copying>>

\* the loop body that stops at the first file that fails
SyncFolderAttemptAborting(b, i, file, r) ==
    [b EXCEPT
       !.state = IF i = b.total \/ r.err /= "ok" THEN "finish" ELSE "callback",
       !.attempts = Append(@, [file |-> file, err |-> r.err]),
       !.synced = IF r.err = "ok"
                  THEN Append(@, r.db.tracks[Len(r.db.tracks)]) ELSE @,
       !.errors = IF r.err = "ok" THEN @ ELSE Append(@, <<file, r.err>>)]

\* sync_folder, lines 487-493: what one pass of the loop body leaves in the
\* locals, r being the outcome of sync_file for the i-th file
SyncFolderAttempted(b, i, file, r) ==
    [b EXCEPT
       !.state = IF i = b.total THEN "finish" ELSE "callback",
       !.attempts = Append(@, [file |-> file, err |-> r.err]),
       !.synced = IF r.err = "ok"
                  THEN Append(@, r.db.tracks[Len(r.db.tracks)]) ELSE @,
       !.errors = IF r.err = "ok" THEN @ ELSE Append(@, <<file, r.err>>)]

\* sync_folder, lines 487-493: sync_file(device, db, file,
\* check_duplicate=True), the track or the error kept in the locals
SyncFolderAttempt ==
    \E name \in {"AAAA"}, copy \in {"ok", "failed"} :
        LET i == Len(batch.attempts) + 1
            file == batch.music_files[i]
            source == FolderContent[file]
            dest_filename == <<name, source.ext>>
            r == sync_file(db, folders, files, source, TRUE, dest_filename,
                           copy)
        IN /\ batch.state = "attempt"
           /\ r.err = "ok" =>
                MusicFile(select_music_folder(files), dest_filename)
                    \notin files
           /\ db' = r.db
           /\ folders' = r.folders
           /\ files' = r.files
           /\ batch' = SyncFolderAttempted(batch, i, file, r)
           /\ UNCHANGED <<dbfile, tmpfile, data, pc, last, parse, codec, copying>>

\* sync_folder, lines 499-503: the first of folder.name, "folder.name (2)",
\* "folder.name (3)", ... that no playlist bears
RECURSIVE UniqueName(_, _, _)
UniqueName(d, base_name, counter) ==
    LET playlist_name == IF counter = 1 THEN base_name
                         ELSE base_name \o " (" \o ToString(counter) \o ")"
    IN IF get_playlist_by_name(d, playlist_name) /= 0
       THEN UniqueName(d, base_name, counter + 1)
       ELSE playlist_name

\* sync_folder, lines 496-511: the playlist of the synced tracks
FolderPlaylist(d, folder_name, synced) ==
    LET r == create_playlist(d, UniqueName(d, folder_name, 1))
    IN IF r.err /= "ok" THEN d
       ELSE [r.db EXCEPT !.playlists[Len(r.db.playlists)].track_ids =
                            [k \in 1..Len(synced) |-> synced[k].id]]

\* sync_folder, lines 495-513: the optional playlist, then return synced; the
\* local list errors goes out of scope
SyncFolderReturn ==
    /\ batch.state = "finish"
    /\ db' = IF batch.create_playlist /\ batch.synced /= <<>>
             THEN FolderPlaylist(db, batch.folder_name, batch.synced)
             ELSE db
    /\ batch' = [batch EXCEPT !.state = "done", !.returned = batch.synced]
    /\ last' = Returned("sync_folder", "ok")
    /\ UNCHANGED <<folders, files, dbfile, tmpfile, data, pc, parse, codec, copying>>

\* MainScreen.on_cancel_sync_pressed while the worker runs: Worker.cancel(),
\* then save(self.database, self.device.db_path) on the thread of the user
\* interface. The worker is a thread (run_worker(..., thread=True)) whose loop
\* reads no cancellation flag.
CancelSync ==
    /\ Running(batch)
    /\ ~batch.cancelled
    /\ batch' = [batch EXCEPT
                   !.cancelled = TRUE,
                   !.in_progress = Len(batch.progress),
                   !.kept = batch.synced]
    /\ BuildStep
    /\ UNCHANGED <<parse, codec, copying>>

\* ------------------------------------------------------------------------
\* db/parser.py: the parser on the bytes of a file
\* ------------------------------------------------------------------------
\* db/atoms.py, header sizes
MHSD_HEADER_SIZE == 96
MHLT_HEADER_SIZE == 92
MHIT_HEADER_SIZE_V14 == 388
MHOD_HEADER_SIZE == 24
MHLP_HEADER_SIZE == 92
MHYP_HEADER_SIZE == 108
MHIP_HEADER_SIZE == 76
\* _build_string_mhod: 24 header + 16 string header
STRING_MHOD_HEADER == 40
\* _build_mhip: total_length of the position mhod
POSITION_MHOD_SIZE == 28
\* number of sections written by _build_database
NUM_SECTIONS == 2

Min(a, b) == IF a <= b THEN a ELSE b

\* An atom as it lies in a file: the identifier at its start, the total length
\* it declares, the bytes it really takes, its header length, the fields of
\* its header and the atoms that follow its header.
Node(magic, header_length, size, fields, children) ==
    [magic |-> magic, header_length |-> header_length, declared |-> size,
     size |-> size, fields |-> fields, children |-> children]

\* bytes that are no atom
JunkNode == Node("junk", 0, 0, <<>>, <<>>)

\* len(text.encode("utf-16-le")) of the characters of a token sequence
RECURSIVE Utf16Bytes(_)
Utf16Bytes(tokens) ==
    IF tokens = <<>> THEN 0 ELSE 2 * Len(Head(tokens)) + Utf16Bytes(Tail(tokens))

RECURSIVE SumSizes(_)
SumSizes(nodes) ==
    IF nodes = <<>> THEN 0 ELSE Head(nodes).size + SumSizes(Tail(nodes))

\* _build_string_mhod, lines 786-800
RawMhod(mhod) ==
    Node("mhod", MHOD_HEADER_SIZE,
         STRING_MHOD_HEADER + (IF mhod.type = LOCATION
                               THEN EncodedLength(mhod.string)
                               ELSE Utf16Bytes(mhod.string)),
         mhod, <<>>)

\* _build_mhip, lines 892-913
RawMhip(mhip) ==
    Node("mhip", MHIP_HEADER_SIZE, MHIP_HEADER_SIZE + POSITION_MHOD_SIZE,
         mhip, <<>>)

\* _build_mhit, lines 682-775
RawMhit(mhit) ==
    LET mhods == [i \in 1..Len(mhit.mhods) |-> RawMhod(mhit.mhods[i])]
    IN Node("mhit", MHIT_HEADER_SIZE_V14,
            MHIT_HEADER_SIZE_V14 + SumSizes(mhods), mhit, mhods)

\* _build_mhyp, lines 853-876: header, name mhod, mhips
RawMhyp(mhyp) ==
    LET atoms == [i \in 1..Len(mhyp.mhods) |-> RawMhod(mhyp.mhods[i])]
                 \o [i \in 1..Len(mhyp.mhips) |-> RawMhip(mhyp.mhips[i])]
    IN Node("mhyp", MHYP_HEADER_SIZE,
            MHYP_HEADER_SIZE + SumSizes(atoms), mhyp, atoms)

\* _build_track_section / _build_playlist_section: the section as the bytes
\* section_data of _parse_database, base being the offset of the first record
RawSection(type, list_header, nodes) ==
    [type |-> type,
     base |-> MHSD_HEADER_SIZE + list_header,
     len |-> MHSD_HEADER_SIZE + list_header + SumSizes(nodes),
     num |-> Len(nodes),
     children |-> nodes]

\* _build_database, lines 573-604: the two sections of the file
RawFile(image) ==
    <<RawSection(1, MHLT_HEADER_SIZE,
                 [i \in 1..Len(image.mhlt) |-> RawMhit(image.mhlt[i])]),
      RawSection(2, MHLP_HEADER_SIZE,
                 [i \in 1..Len(image.mhlp) |-> RawMhyp(image.mhlp[i])])>>

\* offset of the k-th of the atoms that lie one after the other from base
StartOf(nodes, base, k) == base + SumSizes(SubSeq(nodes, 1, k - 1))

\* the atom that starts at the offset
NodeAt(nodes, base, offset) ==
    LET S == {k \in 1..Len(nodes) : StartOf(nodes, base, k) = offset}
    IN IF S = {} THEN JunkNode ELSE nodes[CHOOSE k \in S : TRUE]

\* A file that differs from a written one in one atom (child = 0: the record
\* itself): a declared length of zero, a declared length one above the bytes
\* that remain in its parent, or another identifier.
NoFault == [sec |-> 0, rec |-> 0, child |-> 0, kind |-> "none"]

FaultKinds == {"zero", "overlong", "magic"}

Faults(file) ==
    {NoFault} \cup
    {[sec |-> s, rec |-> r, child |-> c, kind |-> k] :
        s \in 1..NUM_SECTIONS, r \in 1..MaxPlaylists, c \in 0..(MaxTracks + 1),
        k \in FaultKinds}

ValidFault(file, fault) ==
    \/ fault = NoFault
    \/ /\ fault.kind /= "none"
       /\ fault.rec \in 1..Len(file[fault.sec].children)
       /\ fault.child \in
              0..Len(file[fault.sec].children[fault.rec].children)

Corrupt(node, kind, remaining) ==
    CASE kind = "zero" -> [node EXCEPT !.declared = 0]
      [] kind = "overlong" -> [node EXCEPT !.declared = remaining + 1]
      [] kind = "magic" -> [node EXCEPT !.magic = "junk"]

WithFault(file, fault) ==
    IF fault = NoFault THEN file
    ELSE
      LET S == file[fault.sec]
          R == S.children[fault.rec]
          r == IF fault.child = 0
               THEN Corrupt(R, fault.kind,
                            S.len - StartOf(S.children, S.base, fault.rec))
               ELSE [R EXCEPT !.children[fault.child] =
                        Corrupt(@, fault.kind,
                                R.size - StartOf(R.children, R.header_length,
                                                 fault.child))]
      IN [file EXCEPT ![fault.sec].children[fault.rec] = r]

\* parse_mhod, lines 118-141, on the first avail bytes of an atom that holds a
\* string: the error it raises, "ok" when it returns
parse_mhod(atom, avail) ==
    IF avail < MHOD_HEADER_SIZE THEN "MHOD too short"
    ELSE IF atom.magic /= "mhod" THEN "Invalid MHOD identifier"
    ELSE IF avail < STRING_MHOD_HEADER THEN "String MHOD too short"
    ELSE "ok"

\* no file is being parsed
NoParse ==
    [state |-> "idle", file |-> <<>>, fault |-> NoFault, image |-> NoImage,
     sec |-> 0, list_offset |-> 0, list_iter |-> 0, rec |-> JunkNode,
     data_len |-> 0, trail |-> <<>>, rec_offset |-> 0, rec_iter |-> 0,
     mhods_parsed |-> 0, mhods |-> <<>>, mhips |-> <<>>, db |-> Database,
     error |-> "ok"]

Raise(p, error) == [p EXCEPT !.state = "error", !.error = error]

\* two tracks with a title and a path, a master playlist and a user playlist
ParsedLibrary ==
    [Database EXCEPT
       !.database_id = 1,
       !.library_persistent_id = 1,
       !.tracks = <<Track(1, "Song One", "Artist A", "",
                          <<":", "iPod_Control", ":", "Music", ":", "F", "0",
                            "0", ":", "AAAA", ".mp3">>),
                    Track(2, "Song Two", "", "", <<>>)>>,
       !.playlists = <<Playlist(1, "Library", <<1, 2>>, TRUE),
                       Playlist(2, "Favorites", <<2, 1>>, FALSE)>>]

ParsedLibraries == {PrepareDatabase(Database, 1, 1), ParsedLibrary}

\* _parse_database, lines 397-424: the header of the file
ParseOpen ==
    \E d \in ParsedLibraries :
        LET image == _build_database(d, [i \in 1..Len(d.tracks) |-> 1])
        IN \E fault \in Faults(RawFile(image)) :
            /\ parse.state = "idle"
            /\ ValidFault(RawFile(image), fault)
            /\ parse' = [NoParse EXCEPT
                           !.state = "sections",
                           !.file = WithFault(RawFile(image), fault),
                           !.fault = fault,
                           !.image = image,
                           !.db = [Database EXCEPT
                                     !.database_id = image.database_id,
                                     !.library_persistent_id =
                                         image.library_persistent_id]]
            /\ UNCHANGED <<db, folders, files, dbfile, tmpfile, data, pc, last,
                           batch, codec, copying>>

\* _parse_database, lines 427-450: the loop over range(num_children); the
\* track list and the playlist list start behind the two headers (lines
\* 456-465, 489-498)
SectionStep ==
    /\ parse.state = "sections"
    /\ parse' = IF parse.sec = NUM_SECTIONS
                THEN [parse EXCEPT !.state = "done"]
                ELSE [parse EXCEPT
                        !.state = "list",
                        !.sec = @ + 1,
                        !.list_offset = parse.file[parse.sec + 1].base,
                        !.list_iter = 0]
    /\ UNCHANGED <<db, folders, files, dbfile, tmpfile, data, pc, last, batch, codec, copying>>

\* if mhit_total_len == 0: break (and the same test of the other loops)
LeavesNever(total_len) == FALSE

\* lines 475-477, 508-510, 274-275, 349-350
LeavesOnZero(total_len) == total_len = 0

\* _parse_track_section, lines 467-479 / _parse_playlist_section, lines
\* 500-512: the guards of one pass of the loop, then the slice handed to
\* parse_mhit or parse_mhyp
ListStep ==
    LET S == parse.file[parse.sec]
        node == NodeAt(S.children, S.base, parse.list_offset)
        expected == IF S.type = 1 THEN "mhit" ELSE "mhyp"
        k == CHOOSE k \in 1..Len(S.children) :
                 StartOf(S.children, S.base, k) = parse.list_offset
    IN /\ parse.state = "list"
       /\ parse' =
            IF \/ parse.list_iter = S.num
               \/ parse.list_offset >= S.len
               \/ node.magic /= expected
               \/ LeavesOnZero(node.declared)
            THEN [parse EXCEPT !.state = "sections"]
            ELSE [parse EXCEPT
                    !.state = "record",
                    !.rec = node,
                    !.data_len = Min(node.declared, S.len - parse.list_offset),
                    !.trail = SubSeq(S.children, k + 1, Len(S.children)),
                    !.rec_offset = node.header_length,
                    !.rec_iter = 0,
                    !.mhods_parsed = 0,
                    !.mhods = <<>>,
                    !.mhips = <<>>]
       /\ UNCHANGED <<db, folders, files, dbfile, tmpfile, data, pc, last,
                      batch, codec, copying>>

\* lines 479-483 / 512-516: the record is appended and the offset moves on by
\* the length the record declares
RecordDone(p) ==
    [p EXCEPT
       !.state = "list",
       !.list_offset = @ + p.rec.declared,
       !.list_iter = @ + 1,
       !.db = IF p.file[p.sec].type = 1
              THEN [@ EXCEPT !.tracks =
                       Append(@, parse_mhit([p.rec.fields EXCEPT
                                               !.mhods = p.mhods]))]
              ELSE [@ EXCEPT !.playlists =
                       Append(@, parse_mhyp([p.rec.fields EXCEPT
                                               !.mhods = p.mhods,
                                               !.mhips = p.mhips]))]]

\* parse_mhit, lines 257-290: one pass of the loop over range(num_mhods)
MhitStep(p) ==
    LET atom == NodeAt(p.rec.children, p.rec.header_length, p.rec_offset)
        avail == Min(atom.declared, p.data_len - p.rec_offset)
    IN IF \/ p.rec_iter = Len(p.rec.fields.mhods)
          \/ p.rec_offset >= p.rec.declared
          \/ p.data_len - p.rec_offset < 12
          \/ LeavesOnZero(atom.declared)
          \/ p.rec_offset + atom.declared > p.rec.declared
       THEN RecordDone(p)
       ELSE IF parse_mhod(atom, avail) /= "ok"
       THEN Raise(p, parse_mhod(atom, avail))
       ELSE [p EXCEPT
               !.mhods = Append(@, atom.fields),
               !.rec_offset = @ + atom.declared,
               !.rec_iter = @ + 1]

\* parse_mhyp, lines 342-370: one pass of the while loop; the bytes behind the
\* atoms of the playlist are those of the playlists that follow it
MhypStep(p) ==
    LET atom == NodeAt(p.rec.children \o p.trail, p.rec.header_length,
                       p.rec_offset)
        avail == Min(atom.declared, p.data_len - p.rec_offset)
    IN IF \/ ~(p.rec_offset < p.rec.declared)
          \/ p.rec_offset + 12 > p.data_len
          \/ LeavesOnZero(atom.declared)
       THEN RecordDone(p)
       ELSE IF atom.magic = "mhod" /\ p.mhods_parsed < Len(p.rec.fields.mhods)
       THEN IF parse_mhod(atom, avail) /= "ok"
            THEN Raise(p, parse_mhod(atom, avail))
            ELSE [p EXCEPT
                    !.mhods = Append(@, atom.fields),
                    !.mhods_parsed = @ + 1,
                    !.rec_offset = @ + atom.declared,
                    !.rec_iter = @ + 1]
       ELSE IF atom.magic = "mhip" /\ p.rec_offset + 28 <= p.data_len
       THEN [p EXCEPT
               !.mhips = Append(@, atom.fields),
               !.rec_offset = @ + atom.declared,
               !.rec_iter = @ + 1]
       ELSE [p EXCEPT
               !.rec_offset = @ + atom.declared,
               !.rec_iter = @ + 1]

RecordStep ==
    /\ parse.state = "record"
    /\ parse' = IF parse.file[parse.sec].type = 1 THEN MhitStep(parse)
                ELSE MhypStep(parse)
    /\ UNCHANGED <<db, folders, files, dbfile, tmpfile, data, pc, last, batch, codec, copying>>

\* ------------------------------------------------------------------------
\* sync.py: sync_file on a device that another program writes to
\* ------------------------------------------------------------------------
\* no sync_file is between its collision check and its copy
NoCopy ==
    [state |-> "none",
     source |-> [ext |-> "", title |-> "", artist |-> "", album |-> ""],
     dest_folder |-> 0, dest_filename |-> <<>>, existed |-> FALSE]

\* files that the other program may have put on the device
MaxForeignFiles == 2

\* sync_file, lines 319-346: extension, duplicate check, select_music_folder,
\* generate_filename until dest_path.exists() is false
CopyCheck ==
    \E source \in Sources, check_duplicate \in BOOLEAN, name \in RandomNames :
        LET dest_filename == <<name, source.ext>>
            dest_folder == select_music_folder(files)
            r == sync_file(db, folders, files, source, check_duplicate,
                           dest_filename, "ok")
        IN /\ copying.state /= "checked"
           /\ pc = "idle"
           /\ WithinBounds(r.db)
           /\ r.err = "ok" => MusicFile(dest_folder, dest_filename) \notin files
           /\ folders' = r.folders
           /\ copying' = IF r.err /= "ok" THEN NoCopy
                         ELSE [NoCopy EXCEPT !.state = "checked",
                                             !.source = source,
                                             !.dest_folder = dest_folder,
                                             !.dest_filename = dest_filename]
           /\ last' = Returned("sync_file",
                               IF r.err = "ok" THEN "running" ELSE r.err)
           /\ UNCHANGED <<db, files, dbfile, tmpfile, data, pc, batch, parse, codec>>

\* another program creates a file in an Fnn folder of the mounted device
ExternalCreate ==
    \E i \in folders, name \in RandomNames :
        LET path == MusicFile(i, <<name, ".mp3">>)
        IN /\ path \notin files
           /\ Cardinality(files) < MaxTracks + MaxForeignFiles
           /\ files' = files \cup {path}
           /\ UNCHANGED <<db, folders, dbfile, tmpfile, data, pc, last, batch, parse, codec, copying>>

\* sync_file, lines 348-391: shutil.copy2(source, dest_path), the Track, the
\* two appends
CopyFile ==
    \E copy \in {"ok", "failed"} :
        LET source == copying.source
            dest_path == MusicFile(copying.dest_folder, copying.dest_filename)
            ipod_path == <<":", "iPod_Control", ":", "Music", ":">>
                            \o FolderName(copying.dest_folder) \o <<":">>
                            \o copying.dest_filename
            track == Track(next_track_id(db), source.title, source.artist,
                           source.album, ipod_path)
            m == get_master_playlist(db)
            d1 == [db EXCEPT !.tracks = Append(@, track)]
            d2 == IF m /= 0
                  THEN [d1 EXCEPT !.playlists[m].track_ids = Append(@, track.id)]
                  ELSE d1
        IN /\ copying.state = "checked"
           /\ IF copy = "ok"
              THEN /\ db' = d2
                   /\ files' = files \cup {dest_path}
                   /\ copying' = [copying EXCEPT !.state = "copied",
                                                 !.existed = dest_path \in files]
                   /\ last' = Returned("sync_file", "ok")
              ELSE /\ copying' = [copying EXCEPT !.state = "failed"]
                   /\ last' = Returned("sync_file", "IOFailed")
                   /\ UNCHANGED <<db, files>>
           /\ UNCHANGED <<folders, dbfile, tmpfile, data, pc, batch, parse, codec>>

\* ------------------------------------------------------------------------
\* db/atoms.py: encode_path and decode_path applied to a path
\* ------------------------------------------------------------------------
\* no path was handed to encode_path
NoCodec ==
    [state |-> "none", path |-> <<>>, encoded |-> <<>>, decoded |-> <<>>,
     reencoded |-> <<>>]

\* a name of 54 characters and a short one: with the separators they make
\* paths of 55, 56 and 57 characters, around the 112 bytes
PathTokens ==
    {":", "/", "A",
     "XXXXXXXXXXXXXXXXXXXXXXXXXXXXXXXXXXXXXXXXXXXXXXXXXXXXXX"}

\* longest path, in names and separators
MaxPathLen == 3

CodecPaths == SeqsUpTo(PathTokens, MaxPathLen)

\* encoded = encode_path(path)
EncodePath ==
    \E path \in CodecPaths :
        /\ codec.state = "none"
        /\ codec' = [NoCodec EXCEPT
                       !.state = IF encode_path(path) = PathTooLong
                                 THEN "raised" ELSE "encoded",
                       !.path = path,
                       !.encoded = encode_path(path)]
        /\ UNCHANGED <<db, folders, files, dbfile, tmpfile, data, pc, last,
                       batch, parse, copying>>

\* decoded = decode_path(encoded)
DecodePath ==
    /\ codec.state = "encoded"
    /\ codec' = [codec EXCEPT
                   !.state = "decoded",
                   !.decoded = decode_path(codec.encoded)]
    /\ UNCHANGED <<db, folders, files, dbfile, tmpfile, data, pc, last, batch,
                   parse, copying>>

\* reencoded = encode_path(decoded)
EncodeAgain ==
    /\ codec.state = "decoded"
    /\ codec' = [codec EXCEPT
                   !.state = "reencoded",
                   !.reencoded = encode_path(codec.decoded)]
    /\ UNCHANGED <<db, folders, files, dbfile, tmpfile, data, pc, last, batch,
                   parse, copying>>

\* The library written by the application when it finds no database on the
\* device (app.py, _connect_device: Database() followed by save)
FreshlySaved == PrepareDatabase(Database, 1, 1)

InitLibrary(d) ==
    /\ db = d
    /\ folders = {}
    /\ files = {}
    /\ dbfile = IF d = Database THEN Absent
                ELSE Complete(_build_database(d, <<>>))
    /\ tmpfile = Absent
    /\ data = NoImage
    /\ pc = "idle"
    /\ last = Returned("none", "ok")
    /\ batch = NoBatch
    /\ parse = NoParse
    /\ codec = NoCodec
    /\ copying = NoCopy

Init == \E d \in {Database, FreshlySaved} : InitLibrary(d)

\* The Mutation API, sync_file and remove_track on a library that is either
\* empty or freshly saved.
Next ==
    \/ CreatePlaylist
    \/ DeletePlaylist
    \/ RenamePlaylist
    \/ AddTrackToPlaylist
    \/ RemoveTrackFromPlaylist
    \/ ReorderPlaylist
    \/ MoveTrackInPlaylist
    \/ ClearPlaylist
    \/ DuplicatePlaylist
    \/ SyncFile
    \/ RemoveTrack

Spec == Init /\ [][Next]_vars

\* save() and the calls that allocate ids, from the empty library.
InitSave == InitLibrary(Database)

NextSave ==
    \/ SaveBuild
    \/ SaveWrite
    \/ SaveRename
    \/ SaveFailed
    \/ SyncFile
    \/ RemoveTrack
    \/ CreatePlaylist
    \/ DeletePlaylist
    \/ DuplicatePlaylist
    \/ RemoveTrackFromPlaylist

SpecSave == InitSave /\ [][NextSave]_vars

\* save() and load() on libraries whose tracks and playlists take the values
\* below in the fields that the two directions of the codec treat differently
\* (flags, enums, shifted and defaulted integers, optional strings, paths).
ColonPath ==
    <<":", "iPod_Control", ":", "Music", ":", "F", "0", "0", ":", "AAAA", ".mp3">>

SlashPath ==
    <<"iPod_Control", "/", "Music", "/", "F", "0", "0", "/", "AAAA", ".mp3">>

SampleRates == {0, 44100}

DiscNumbers == {0, 1, 2}

Dbids == {0, 2}

\* rich: every field that is written as it is holds a value that is not its
\* default
RoundTripTracks(id) ==
    {[Track(id, title, "Artist A", IF rich THEN "Album X" ELSE "", path)
        EXCEPT !.album_artist = IF rich THEN "Artist A" ELSE "",
               !.genre = IF rich THEN "Rock" ELSE "",
               !.composer = IF rich THEN "Composer C" ELSE "",
               !.comment = IF rich THEN "Comment" ELSE "",
               !.duration_ms = IF rich THEN 1000 ELSE 0,
               !.bitrate = IF rich THEN 128 ELSE 0,
               !.sample_rate = sample_rate,
               !.size_bytes = IF rich THEN 4096 ELSE 0,
               !.track_number = IF rich THEN 3 ELSE 0,
               !.total_tracks = IF rich THEN 9 ELSE 0,
               !.disc_number = disc_number,
               !.total_discs = IF disc_number = 2 THEN 2 ELSE disc_number,
               !.year = IF rich THEN 1999 ELSE 0,
               !.rating = IF rich THEN 80 ELSE 0,
               !.play_count = IF rich THEN 7 ELSE 0,
               !.skip_count = IF rich THEN 2 ELSE 0,
               !.file_type = file_type,
               !.media_type = IF rich THEN "AUDIOBOOK" ELSE "AUDIO",
               !.compilation = rich,
               !.dbid = dbid,
               !.pregap = IF rich THEN 5 ELSE 0,
               !.postgap = IF rich THEN 6 ELSE 0,
               !.sample_count = IF rich THEN 44100 ELSE 0,
               !.gapless_data = IF rich THEN 11 ELSE 0,
               !.gapless_track_flag = rich,
               !.gapless_album_flag = rich] :
        title \in {"", "Song One"}, path \in {<<>>, ColonPath, SlashPath},
        sample_rate \in SampleRates, disc_number \in DiscNumbers,
        file_type \in {"MP3", "WAV"}, dbid \in Dbids, rich \in BOOLEAN}

RoundTripPlaylists(id) ==
    {[Playlist(id, name, track_ids, FALSE)
        EXCEPT !.is_podcast = is_podcast, !.sort_order = sort_order] :
        name \in {"", "Favorites"}, track_ids \in SeqsUpTo(1..MaxTracks, MaxOrderLen),
        is_podcast \in BOOLEAN, sort_order \in {"MANUAL", "RATING"}}

PlainTrack(id) == Track(id, "Song One", "Artist A", "Album X", ColonPath)

RoundTripLibraries ==
    {[Database EXCEPT !.tracks = <<t>>] : t \in RoundTripTracks(1)}
    \cup {[Database EXCEPT !.tracks = <<PlainTrack(2), t>>] : t \in RoundTripTracks(1)}
    \cup {[Database EXCEPT !.tracks = <<PlainTrack(1), PlainTrack(2)>>,
                           !.playlists = ps] :
             ps \in UNION {
                {<<p>>, <<p, Playlist(2, "Mix", <<2, 1>>, FALSE)>>,
                 <<Playlist(2, "Library", <<>>, TRUE), p>>,
                 <<p, Playlist(2, "Library", <<>>, TRUE)>>} :
                p \in RoundTripPlaylists(1)}}

InitRoundTrip ==
    /\ db \in RoundTripLibraries
    /\ folders = {}
    /\ files = {}
    /\ dbfile = Absent
    /\ tmpfile = Absent
    /\ data = NoImage
    /\ pc = "idle"
    /\ last = Returned("none", "ok")
    /\ batch = NoBatch
    /\ parse = NoParse
    /\ codec = NoCodec
    /\ copying = NoCopy

NextRoundTrip ==
    \/ SaveBuild
    \/ SaveWrite
    \/ SaveRename
    \/ SaveFailed
    \/ Load

SpecRoundTrip == InitRoundTrip /\ [][NextRoundTrip]_vars

\* The calls that order a playlist, on a library of three tracks, its master
\* and one user playlist.
InitPosition ==
    /\ db = [database_id |-> 1, library_persistent_id |-> 1,
             tracks |-> [i \in 1..(MaxTracks + 1) |-> PlainTrack(i)],
             playlists |-> <<Playlist(1, "Library",
                                      [i \in 1..(MaxTracks + 1) |-> i], TRUE),
                             Playlist(2, "Favorites", <<>>, FALSE)>>]
    /\ folders = {}
    /\ files = {}
    /\ dbfile = Absent
    /\ tmpfile = Absent
    /\ data = NoImage
    /\ pc = "idle"
    /\ last = Returned("none", "ok")
    /\ batch = NoBatch
    /\ parse = NoParse
    /\ codec = NoCodec
    /\ copying = NoCopy

NextPosition ==
    \/ AddTrackToPlaylist
    \/ MoveTrackInPlaylist
    \/ ReorderPlaylist

SpecPosition == InitPosition /\ [][NextPosition]_vars

\* sync_file with both filenames and copies that stop halfway, so that the
\* folders fill unevenly, and remove_track.
SyncFileFolders == SyncFileOf(LibSources, RandomNames, {"ok", "partial"})

InitFolders == InitLibrary(FreshlySaved)

NextFolders ==
    \/ SyncFileFolders
    \/ RemoveTrack

SpecFolders == InitFolders /\ [][NextFolders]_vars

\* One sync_folder over a folder of up to four files on a freshly saved
\* library, with the cancel button of the main screen and the save it starts.
InitFolderSync == InitLibrary(FreshlySaved)

NextFolderSync ==
    \/ SyncFolderStart
    \/ SyncFolderProgress
    \/ SyncFolderAttempt
    \/ SyncFolderReturn
    \/ CancelSync
    \/ SaveWrite
    \/ SaveRename
    \/ SaveFailed

SpecFolderSync == InitFolderSync /\ [][NextFolderSync]_vars

\* _parse_database on the bytes of a written file, or of one that differs from
\* it in one atom.
InitParse == InitLibrary(FreshlySaved)

NextParse ==
    \/ ParseOpen
    \/ SectionStep
    \/ ListStep
    \/ RecordStep

SpecParse == InitParse /\ [][NextParse]_vars

\* the interpreter goes on while a statement of the parser is left to run
SpecParseFair == SpecParse /\ WF_vars(NextParse)

\* encode_path, decode_path and encode_path again on a path
\* The worker thread of MainScreen._sync_folder_worker and the handler of the
\* cancel button on the thread of the user interface. Python switches threads
\* between any two statements, so sync_file and _build_database are taken in
\* the steps between which the other thread can run.

\* sync_file, lines 319-384, up to and including db.tracks.append(track)
WorkerAppendTrack ==
    \E name \in {"AAAA"}, copy \in {"ok", "failed"} :
        LET i == Len(batch.attempts) + 1
            file == batch.music_files[i]
            source == FolderContent[file]
            dest_filename == <<name, source.ext>>
            r == sync_file(db, folders, files, source, TRUE, dest_filename,
                           copy)
        IN /\ batch.state = "attempt"
           /\ r.err = "ok" =>
                MusicFile(select_music_folder(files), dest_filename)
                    \notin files
           /\ WithinBounds(r.db)
           /\ db' = [db EXCEPT !.tracks = r.db.tracks]
           /\ folders' = r.folders
           /\ files' = r.files
           /\ batch' = IF r.err = "ok" THEN [batch EXCEPT !.state = "appended"]
                       ELSE SyncFolderAttempted(batch, i, file, r)
           /\ UNCHANGED <<dbfile, tmpfile, data, pc, last, parse, codec, copying>>

\* sync_file, lines 386-391: master = db.get_master_playlist(); if master:
\* master.track_ids.append(track.id); return track
WorkerAppendMaster ==
    LET i == Len(batch.attempts) + 1
        file == batch.music_files[i]
        track == db.tracks[Len(db.tracks)]
        m == get_master_playlist(db)
        d == IF m /= 0
             THEN [db EXCEPT !.playlists[m].track_ids = Append(@, track.id)]
             ELSE db
    IN /\ batch.state = "appended"
       /\ db' = d
       /\ batch' = SyncFolderAttempted(batch, i, file,
                                       SyncResult(d, folders, files, "ok"))
       /\ UNCHANGED <<folders, files, dbfile, tmpfile, data, pc, last, parse, codec, copying>>

\* on_cancel_sync_pressed, lines 564-569, and _build_database, lines 553-571:
\* Worker.cancel(), then save() prepares the library
CancelPrepare ==
    \E r1 \in RandomIds, r2 \in RandomIds :
        /\ Running(batch) \/ batch.state = "appended"
        /\ ~batch.cancelled
        /\ pc = "idle"
        /\ batch' = [batch EXCEPT
                       !.cancelled = TRUE,
                       !.in_progress = Len(batch.progress),
                       !.kept = batch.synced]
        /\ db' = PrepareDatabase(db, r1, r2)
        /\ pc' = "prepared"
        /\ last' = Returned("save", "running")
        /\ UNCHANGED <<folders, files, dbfile, tmpfile, data, parse, codec, copying>>

\* _build_database, lines 573-604: the track section and the playlist section
\* are built from the library as it is by then
CancelSerialize ==
    \E rnd \in Draws(db) :
        /\ pc = "prepared"
        /\ data' = _build_database(db, rnd)
        /\ pc' = "built"
        /\ UNCHANGED <<db, folders, files, dbfile, tmpfile, last, batch, parse, codec, copying>>

InitWorker == InitLibrary(FreshlySaved)

NextWorker ==
    \/ SyncFolderStart
    \/ SyncFolderProgress
    \/ WorkerAppendTrack
    \/ WorkerAppendMaster
    \/ SyncFolderReturn
    \/ CancelPrepare
    \/ CancelSerialize
    \/ SaveWrite
    \/ SaveRename
    \/ SaveFailed

SpecWorker == InitWorker /\ [][NextWorker]_vars

InitCopy == InitLibrary(FreshlySaved)

NextCopy ==
    \/ CopyCheck
    \/ ExternalCreate
    \/ CopyFile

SpecCopy == InitCopy /\ [][NextCopy]_vars

\* Successive saves of one library, nothing else touching it; _build_mhit
\* draws from 1 .. 2**63 - 1, here from a range of two values
DbidDraws == 1..(MaxRand + 1)

DbidLibraries ==
    {[Database EXCEPT !.tracks = <<[PlainTrack(1) EXCEPT !.dbid = a]>>] :
        a \in Dbids}
    \cup {[Database EXCEPT !.tracks = <<[PlainTrack(1) EXCEPT !.dbid = a],
                                        [PlainTrack(2) EXCEPT !.dbid = b]>>] :
             a \in Dbids, b \in Dbids}

SaveBuildDbid == BuildStepOf(DbidDraws) /\ UNCHANGED <<batch, copying>>

InitDbid ==
    /\ db \in DbidLibraries
    /\ folders = {}
    /\ files = {}
    /\ dbfile = Absent
    /\ tmpfile = Absent
    /\ data = NoImage
    /\ pc = "idle"
    /\ last = Returned("none", "ok")
    /\ batch = NoBatch
    /\ parse = NoParse
    /\ codec = NoCodec
    /\ copying = NoCopy

NextDbid ==
    \/ SaveBuildDbid
    \/ SaveWrite
    \/ SaveRename
    \/ SaveFailed

SpecDbid == InitDbid /\ [][NextDbid]_vars

InitPathCodec == InitLibrary(FreshlySaved)

NextPathCodec ==
    \/ EncodePath
    \/ DecodePath
    \/ EncodeAgain

SpecPathCodec == InitPathCodec /\ [][NextPathCodec]_vars

\* sync_file and remove_track with the inputs of the device: both titles,
\* supported and unsupported extensions, copies that fail or stop halfway,
\* Track objects that are stale, unlinks that fail.
InitDevice == InitLibrary(FreshlySaved)

NextDevice ==
    \/ SyncFileAny
    \/ RemoveTrackAny
    \/ CreatePlaylist
    \/ AddTrackToPlaylist

SpecDevice == InitDevice /\ [][NextDevice]_vars

\* ------------------------------------------------------------------------
\* Properties
\* ------------------------------------------------------------------------
PlaylistOps == {"create_playlist", "delete_playlist", "rename_playlist",
                "add_track_to_playlist", "remove_track_from_playlist",
                "reorder_playlist", "move_track_in_playlist", "clear_playlist",
                "duplicate_playlist"}

\* the indices of the non-master playlists
get_user_playlists(d) == {i \in 1..Len(d.playlists) : ~d.playlists[i].is_master}

\* C1. Referential integrity: in every state reached by the Mutation API,
\* sync_file and remove_track, successful or failed, every track id held by a
\* playlist is the id of a track of the library.
C1_ReferentialIntegrity ==
    \A i \in 1..Len(db.playlists) :
        \A k \in 1..Len(db.playlists[i].track_ids) :
            \E t \in 1..Len(db.tracks) :
                db.tracks[t].id = db.playlists[i].track_ids[k]

\* a track has just been removed while a user playlist still holds another
C1_Witness ==
    /\ last.op = "remove_track"
    /\ db.tracks /= <<>>
    /\ \E i \in get_user_playlists(db) : db.playlists[i].track_ids /= <<>>

\* C2. Failure atomicity: a step in which a playlist operation raises leaves
\* the library (tracks, list of playlists, every name, flag and track_ids) as
\* it was.
C2_FailureAtomic ==
    [][(last'.op \in PlaylistOps /\ last'.err /= "ok") => db' = db]_vars

\* a rename has just failed on a name collision, in a library whose playlists
\* hold tracks
C2_Witness ==
    /\ last = Returned("rename_playlist", "Duplicate")
    /\ \E i \in get_user_playlists(db) : db.playlists[i].track_ids /= <<>>

TrackIdsOf(d) == {d.tracks[i].id : i \in 1..Len(d.tracks)}

PlaylistIdsOf(d) == {d.playlists[i].id : i \in 1..Len(d.playlists)}

TrackIdSeq(d) == [i \in 1..Len(d.tracks) |-> d.tracks[i].id]

Masters(d) == {i \in 1..Len(d.playlists) : d.playlists[i].is_master}

\* id is one more than the largest of ids, or 1 when there are none
IsNextId(ids, id) ==
    IF ids = {} THEN id = 1
    ELSE (id - 1) \in ids /\ \A x \in ids : x < id

C3_Unique ==
    /\ \A i, j \in 1..Len(db.tracks) : db.tracks[i].id = db.tracks[j].id => i = j
    /\ \A i, j \in 1..Len(db.playlists) :
          db.playlists[i].id = db.playlists[j].id => i = j

C3_AllocatedNext ==
    /\ \A id \in TrackIdsOf(db') \ TrackIdsOf(db) : IsNextId(TrackIdsOf(db), id)
    /\ \A id \in PlaylistIdsOf(db') \ PlaylistIdsOf(db) :
          IsNextId(PlaylistIdsOf(db), id)

\* C3. Id uniqueness: from the empty library, through sync_file, remove_track,
\* create_playlist, duplicate_playlist, delete_playlist and save, no two tracks
\* share an id, no two playlists share an id, and every id that appears is one
\* more than the largest id present before (1 when there was none).
C3_IdsUnique == []C3_Unique /\ [][C3_AllocatedNext]_vars

\* a track was synced after the track with id 1 had been removed, and the
\* master was synthesized after a user playlist existed
C3_Witness ==
    /\ last = Returned("sync_file", "ok")
    /\ Len(db.tracks) = 2
    /\ db.tracks[1].id = 2
    /\ Len(db.playlists) >= 2
    /\ db.playlists[1].is_master
    /\ db.playlists[1].id > 1

C7_OneMaster ==
    last = Returned("save", "ok") =>
        /\ Cardinality(Masters(db)) = 1
        /\ dbfile.complete
        /\ Cardinality(Masters(load(dbfile))) = 1

\* a step in which _build_database returns for a library without a master
C7_Synthesized ==
    (pc = "idle" /\ pc' = "built" /\ Masters(db) = {}) =>
        /\ db'.playlists[1].is_master
        /\ Tail(db'.playlists) = db.playlists

\* C7. After a successful save the library in memory and the library read
\* back from the written file both have exactly one master playlist; when the
\* library had none, the master is synthesized in front of the other playlists.
C7_OneMasterAfterSave == []C7_OneMaster /\ [][C7_Synthesized]_vars

\* a save has succeeded for a library whose master was synthesized after two
\* user playlists
C7_Witness ==
    /\ last = Returned("save", "ok")
    /\ Len(db.playlists) = 3
    /\ db.playlists[1].is_master
    /\ db.playlists[1].id = 3

\* C8. After a successful save the master's track_ids is the sequence of the
\* ids of the library's tracks, in memory and in the library read back from
\* the written file.
C8_MasterMirrorsAfterSave ==
    last = Returned("save", "ok") =>
        LET m == get_master_playlist(db)
            l == load(dbfile)
            lm == get_master_playlist(l)
        IN /\ m /= 0
           /\ db.playlists[m].track_ids = TrackIdSeq(db)
           /\ lm /= 0
           /\ l.playlists[lm].track_ids = TrackIdSeq(l)
           /\ TrackIdSeq(l) = TrackIdSeq(db)

\* a save has succeeded for a library of two tracks, the first removed and
\* synced again, with a user playlist next to the master
C8_Witness ==
    /\ last = Returned("save", "ok")
    /\ Len(db.tracks) = 2
    /\ db.tracks[1].id = 2
    /\ get_user_playlists(db) /= {}

C9_NeverPartial ==
    /\ dbfile.exists => dbfile.complete
    /\ pc = "idle" => ~tmpfile.exists

\* the only step that changes the destination is the rename of a completely
\* written temp file; it ends the save successfully
C9_CommitOnly ==
    dbfile' /= dbfile =>
        /\ pc = "written"
        /\ dbfile' = Complete(data)
        /\ last' = Returned("save", "ok")

\* a save that ends in an error reports it and leaves no temp file
C9_FailureClean ==
    (pc /= "idle" \/ last' /= last) /\ pc' = "idle" /\ last'.op = "save"
    /\ last'.err /= "ok" =>
        /\ last'.err \in {"SerializeFailed", "IOFailed"}
        /\ dbfile' = dbfile
        /\ ~tmpfile'.exists

\* C9. Atomic save: the destination always holds a complete image, it changes
\* only at the rename and then to the complete new image; a save that fails at
\* serialization, at the write of the temp file or at the rename leaves the
\* destination as it was, leaves no temp file, and raises.
C9_AtomicSave == []C9_NeverPartial /\ [][C9_CommitOnly /\ C9_FailureClean]_vars

\* a save has failed on I/O while the destination holds an older library
C9_Witness ==
    /\ last = Returned("save", "IOFailed")
    /\ dbfile.exists
    /\ \A rnd \in Draws(db) : dbfile.image /= _build_database(db, rnd)

NameInUse(d, name) == \E j \in 1..Len(d.playlists) : d.playlists[j].name = name

OtherHasName(d, playlist_id, name) ==
    \E j \in 1..Len(d.playlists) :
        d.playlists[j].id /= playlist_id /\ d.playlists[j].name = name

C4_NamesDistinct ==
    \A i, j \in 1..Len(db.playlists) :
        db.playlists[i].name = db.playlists[j].name => i = j

\* C4 as stated: the Duplicate outcomes hold for every call, whatever the
\* playlist id passed to duplicate_playlist and rename_playlist.
C4_AsStated ==
    /\ C4_NamesDistinct
    /\ \A name \in PlaylistNames :
          /\ NameInUse(db, name) => create_playlist(db, name).err = "Duplicate"
          /\ \A playlist_id \in PlaylistIds :
                /\ NameInUse(db, name) =>
                      duplicate_playlist(db, playlist_id, name).err = "Duplicate"
                /\ rename_playlist(db, playlist_id, name).err = "Duplicate"
                      <=> OtherHasName(db, playlist_id, name)

\* C4. Unique playlist names: the names of the playlists stay pairwise
\* distinct; create_playlist with a name in use fails with Duplicate;
\* duplicate_playlist of an existing playlist with a name in use fails with
\* Duplicate; rename_playlist of an existing playlist that is not the master
\* fails with Duplicate exactly when another playlist has the new name, and
\* succeeds when the new name is its own.
C4_UniqueNames ==
    /\ C4_NamesDistinct
    /\ \A name \in PlaylistNames :
          /\ NameInUse(db, name) => create_playlist(db, name).err = "Duplicate"
          /\ \A playlist_id \in PlaylistIds :
                LET i == get_playlist_by_id(db, playlist_id) IN
                /\ i /= 0 /\ NameInUse(db, name) =>
                      duplicate_playlist(db, playlist_id, name).err = "Duplicate"
                /\ i /= 0 /\ ~db.playlists[i].is_master =>
                      /\ rename_playlist(db, playlist_id, name).err = "Duplicate"
                            <=> OtherHasName(db, playlist_id, name)
                      /\ db.playlists[i].name = name =>
                            rename_playlist(db, playlist_id, name).err = "ok"

\* a rename was refused in a library of two user playlists that list tracks
C4_Witness ==
    /\ last = Returned("rename_playlist", "Duplicate")
    /\ Cardinality(get_user_playlists(db)) = 2
    /\ \A i \in get_user_playlists(db) : db.playlists[i].track_ids /= <<>>

C5_Refused ==
    \A m \in Masters(db) :
        LET playlist_id == db.playlists[m].id IN
        /\ delete_playlist(db, playlist_id) = Result(db, "MasterProtected")
        /\ clear_playlist(db, playlist_id) = Result(db, "MasterProtected")
        /\ \A name \in PlaylistNames :
              rename_playlist(db, playlist_id, name) = Result(db, "MasterProtected")

C5_MasterKept ==
    last'.op \in {"delete_playlist", "rename_playlist", "clear_playlist"} =>
        \A m \in Masters(db) :
            \E k \in Masters(db') :
                /\ db'.playlists[k].id = db.playlists[m].id
                /\ db'.playlists[k].name = db.playlists[m].name
                /\ db'.playlists[k].track_ids = db.playlists[m].track_ids

\* C5. Master protection: delete_playlist, rename_playlist and clear_playlist
\* called with the id of the master fail with MasterProtected and change
\* nothing; no step of these three operations removes, renames or empties a
\* master that exists.
C5_MasterProtection == []C5_Refused /\ [][C5_MasterKept]_vars

\* clear_playlist was refused on a master that lists a track
C5_Witness ==
    /\ last = Returned("clear_playlist", "MasterProtected")
    /\ \E m \in Masters(db) : db.playlists[m].track_ids /= <<>>

\* C6. No duplicate entries: no playlist's track_ids contains the same track
\* id twice.
C6_NoDuplicateEntries ==
    \A i \in 1..Len(db.playlists) :
        \A j, k \in 1..Len(db.playlists[i].track_ids) :
            db.playlists[i].track_ids[j] = db.playlists[i].track_ids[k] => j = k

\* the subsequence of s without the entries that satisfy Drop
Keep(s, Drop(_)) == SelectSeq(s, LAMBDA x : ~Drop(x))

C10_Cascade(track, unlink_ok) ==
    LET r == remove_track(db, files, track, unlink_ok).db IN
    /\ \A t \in 1..Len(r.tracks) : r.tracks[t].id /= track.id
    /\ r.tracks = Keep(db.tracks, LAMBDA t : t.id = track.id)
    /\ Len(r.playlists) = Len(db.playlists)
    /\ \A i \in 1..Len(db.playlists) :
          /\ track.id \notin Range(r.playlists[i].track_ids)
          /\ r.playlists[i].track_ids =
                Keep(db.playlists[i].track_ids, LAMBDA id : id = track.id)
          /\ r.playlists[i].id = db.playlists[i].id
          /\ r.playlists[i].name = db.playlists[i].name
          /\ r.playlists[i].is_master = db.playlists[i].is_master
    /\ r.database_id = db.database_id
    /\ r.library_persistent_id = db.library_persistent_id

C10_Removed ==
    \A track \in TrackObjects(db), unlink_ok \in BOOLEAN :
        C10_Cascade(track, unlink_ok)

\* the library after a remove_track step is the one C10_Removed describes
C10_Step ==
    last'.op = "remove_track" /\ (db' /= db \/ files' /= files) =>
        \E track \in TrackObjects(db), unlink_ok \in BOOLEAN :
            db' = remove_track(db, files, track, unlink_ok).db

\* C10. Cascading removal: after remove_track the library has no track with
\* the id of the removed track and no playlist, master or user, lists that id,
\* whether or not the audio file was on the device; the other tracks and the
\* other playlist entries keep their value and their relative order.
C10_CascadingRemoval == []C10_Removed /\ [][C10_Step]_vars

\* remove_track has run while the library holds a track whose audio file is
\* not on the device and a user playlist lists two tracks
C10_Witness ==
    /\ last.op = "remove_track"
    /\ \E t \in 1..Len(db.tracks) :
          ColonToSlash(LStripColon(db.tracks[t].path)) \notin files
    /\ \E i \in get_user_playlists(db) : Len(db.playlists[i].track_ids) = 2

\* what a library new must be when a successful sync_file was applied to old
C11_Appended(old, new) ==
    LET n == Len(new.tracks)
        m == get_master_playlist(old)
    IN /\ n = Len(old.tracks) + 1
       /\ SubSeq(new.tracks, 1, n - 1) = old.tracks
       /\ \A i \in 1..Len(old.tracks) : old.tracks[i].id /= new.tracks[n].id
       /\ m /= 0 =>
             /\ get_master_playlist(new) = m
             /\ new.playlists[m].track_ids =
                   Append(old.playlists[m].track_ids, new.tracks[n].id)

C11_EveryCall ==
    \A source \in Sources, check_duplicate \in BOOLEAN, name \in RandomNames :
        LET r == sync_file(db, folders, files, source, check_duplicate,
                           <<name, source.ext>>, "ok")
        IN r.err = "ok" => C11_Appended(db, r.db)

C11_Step == last' = Returned("sync_file", "ok") => C11_Appended(db, db')

Serialized == \E rnd \in Draws(db) : dbfile = Complete(_build_database(db, rnd))

\* equal in every field, but for a dbid that was zero in the original
SameTrack(original, reloaded) ==
    reloaded = [original EXCEPT !.dbid = IF @ = 0 THEN reloaded.dbid ELSE @]

\* C12. Track round-trip: a load of the bytes of a serialization of the
\* library yields as many tracks, in the same order, each equal to the
\* original in every field, but for a dbid that was zero.
C12_TrackRoundTrip ==
    [][last' = Returned("load", "ok") /\ Serialized =>
          /\ Len(db'.tracks) = Len(db.tracks)
          /\ \A i \in 1..Len(db.tracks) : SameTrack(db.tracks[i], db'.tracks[i])]_vars

UserPlaylistSeq(d) == SelectSeq(d.playlists, LAMBDA p : ~p.is_master)

\* C13. User-playlist round-trip: a load of the bytes of a serialization of
\* the library yields the playlists that are not the master in the same
\* order, each with the same id, name, is_podcast flag, sort order and
\* track_ids.
C13_UserPlaylistRoundTrip ==
    [][last' = Returned("load", "ok") /\ Serialized =>
          UserPlaylistSeq(db') = UserPlaylistSeq(db)]_vars

\* a library was loaded from its own serialization: two user playlists, one
\* a podcast playlist sorted by rating that lists two tracks
C13_Witness ==
    /\ last = Returned("load", "ok")
    /\ Serialized
    /\ Len(UserPlaylistSeq(db)) = 2
    /\ \E i \in get_user_playlists(db) :
          /\ db.playlists[i].is_podcast
          /\ db.playlists[i].sort_order = "RATING"
          /\ Len(db.playlists[i].track_ids) = 2

Count(s, v) == Cardinality({i \in 1..Len(s) : s[i] = v})

SameMultiset(s, t) == \A v \in Range(s) \cup Range(t) : Count(s, v) = Count(t, v)

NoRepeats(s) == \A i, j \in 1..Len(s) : s[i] = s[j] => i = j

\* min(max(position, 0), n)
Clamp(position, n) ==
    IF position < 0 THEN 0 ELSE IF position > n THEN n ELSE position

\* C14. reorder_playlist fails with OrderMismatch and changes nothing when the
\* new order is not a rearrangement of the playlist's track_ids with the same
\* multiplicities; when it succeeds the playlist's track_ids is the new order
\* and has the same entries as before.
C14_ReorderMultiset ==
    \A playlist_id \in PlaylistIds, track_ids \in SeqsUpTo(TrackIds, MaxOrderLen) :
        LET i == get_playlist_by_id(db, playlist_id)
            r == reorder_playlist(db, playlist_id, track_ids)
        IN i /= 0 =>
              /\ ~SameMultiset(track_ids, db.playlists[i].track_ids) =>
                    r = Result(db, "OrderMismatch")
              /\ r.err = "ok" =>
                    /\ r.db.playlists[i].track_ids = track_ids
                    /\ SameMultiset(track_ids, db.playlists[i].track_ids)

\* C15. add_track_to_playlist with a position inserts the track at index
\* min(max(position, 0), len) and keeps the order of the entries already
\* present; without a position it appends the track.
C15_AddPosition ==
    \A playlist_id \in PlaylistIds, track_id \in TrackIds :
        LET i == get_playlist_by_id(db, playlist_id) IN
        i /= 0 =>
           LET old == db.playlists[i].track_ids
               appended == add_track_to_playlist(db, playlist_id, track_id, <<>>)
           IN /\ appended.err = "ok" =>
                    appended.db.playlists[i].track_ids = Append(old, track_id)
              /\ \A position \in Positions :
                    LET r == add_track_to_playlist(db, playlist_id, track_id,
                                                   <<position>>)
                        k == Clamp(position, Len(old))
                    IN r.err = "ok" =>
                          r.db.playlists[i].track_ids =
                             SubSeq(old, 1, k) \o <<track_id>>
                                \o SubSeq(old, k + 1, Len(old))

Succeeded(b) == SelectSeq(b.attempts, LAMBDA a : a.err = "ok")

\* C18: once the cancel button was pressed during a folder sync, no file after
\* the one in progress at that moment is synced (copied and appended to the
\* library), every track appended before is still in the library, and the
\* library persisted by the save of the cancellation contains it.
C18_CleanCancellation ==
    batch.cancelled /\ batch.total > 1 =>
        /\ \A k \in (batch.in_progress + 1)..Len(batch.attempts) :
               batch.attempts[k].err /= "ok"
        /\ \A k \in 1..Len(batch.kept) :
               /\ get_track_by_id(db, batch.kept[k].id) /= 0
               /\ last = Returned("save", "ok") =>
                      get_track_by_id(load(dbfile), batch.kept[k].id) /= 0

\* C19, the callbacks: the k-th call of the progress callback is
\* (k, total, name of the k-th file), and it precedes the k-th attempt
\* directly: there are as many calls as attempts, plus one while an attempt is
\* due.
C19_Progress ==
    /\ \A k \in 1..Len(batch.progress) :
           /\ batch.progress[k].current = k
           /\ batch.progress[k].total = batch.total
           /\ batch.progress[k].filename = batch.music_files[k]
    /\ Len(batch.progress) =
           Len(batch.attempts) + (IF batch.state = "attempt" THEN 1 ELSE 0)

\* C19, the attempts: files are attempted in ascending path order, each at
\* most once, and when sync_folder returns the attempted files are exactly the
\* supported files of the folder, whatever failed.
C19_Attempts ==
    /\ \A j \in 1..Len(batch.attempts), k \in 1..Len(batch.attempts) :
           j < k => batch.attempts[j].file < batch.attempts[k].file
    /\ batch.state = "done" =>
           {batch.attempts[k].file : k \in 1..Len(batch.attempts)} =
           {f \in batch.folder : FolderContent[f].ext \in SUPPORTED_EXTENSIONS}

\* C19, the result: the returned list holds the tracks of the files that
\* succeeded, one per file and in the order of the attempts.
C19_Returned ==
    batch.state = "done" =>
        LET ok == Succeeded(batch)
        IN /\ Len(batch.returned) = Len(ok)
           /\ \A k \in 1..Len(ok) :
                  /\ batch.returned[k].title = FolderContent[ok[k].file].title
                  /\ \A j \in 1..Len(ok) :
                         j /= k => batch.returned[j].id /= batch.returned[k].id

\* C19: a failing file does not abort the batch.
C19_BatchContinues == C19_Progress /\ C19_Attempts /\ C19_Returned

\* sync_folder returned after a file failed and a later file was synced
C19_Witness ==
    /\ batch.state = "done"
    /\ \E j \in 1..Len(batch.attempts), k \in 1..Len(batch.attempts) :
           /\ j < k
           /\ batch.attempts[j].err /= "ok"
           /\ batch.attempts[k].err = "ok"

\* C20: when sync_folder has returned, every file that failed is named with
\* its error in what the call handed out: the progress calls (the returned
\* list holds Track objects only, none for a file that failed).
C20_ErrorsSurfaced ==
    batch.state = "done" =>
        \A k \in 1..Len(batch.attempts) :
            batch.attempts[k].err /= "ok" =>
                \E q \in 1..Len(batch.progress) :
                    /\ batch.progress[q].filename = batch.attempts[k].file
                    /\ batch.progress[q].error = batch.attempts[k].err

\* ------------------------------------------------------------------------
\* The parser on files with one faulty atom
\* ------------------------------------------------------------------------
Finished(p) == p.state \in {"done", "error"}

\* the written image without the faulty atom and the atoms behind it in its
\* parent
Truncated(image, fault) ==
    IF fault.sec = 1
    THEN IF fault.child = 0
         THEN [image EXCEPT !.mhlt = SubSeq(@, 1, fault.rec - 1)]
         ELSE [image EXCEPT !.mhlt[fault.rec].mhods =
                               SubSeq(@, 1, fault.child - 1)]
    ELSE IF fault.child = 0
         THEN [image EXCEPT !.mhlp = SubSeq(@, 1, fault.rec - 1)]
         ELSE LET n == Len(image.mhlp[fault.rec].mhods)
              IN IF fault.child <= n
                 THEN [image EXCEPT
                         !.mhlp[fault.rec].mhods = SubSeq(@, 1, fault.child - 1),
                         !.mhlp[fault.rec].mhips = <<>>]
                 ELSE [image EXCEPT
                         !.mhlp[fault.rec].mhips =
                             SubSeq(@, 1, fault.child - n - 1)]

\* C21: when an atom of a track list, a track record, a playlist list or a
\* playlist record declares more bytes than remain in its parent, parsing ends
\* without an error and yields what the file yields without that atom and the
\* atoms behind it in the parent.
C21_OverlongChild ==
    Finished(parse) /\ parse.fault.kind = "overlong" =>
        /\ parse.state = "done"
        /\ parse.db = _parse_database(Truncated(parse.image, parse.fault))

\* ------------------------------------------------------------------------
\* Path codec
\* ------------------------------------------------------------------------
\* characters of a path
RECURSIVE Chars(_)
Chars(path) == IF path = <<>> THEN 0 ELSE Len(Head(path)) + Chars(Tail(path))

\* the path with a leading colon and colons for slashes, built in one pass
WithColons(path) ==
    (IF path = <<>> \/ Head(path) /= ":" THEN <<":">> ELSE <<>>)
    \o [i \in 1..Len(path) |-> IF path[i] = "/" THEN ":" ELSE path[i]]

\* C22: encode_path raises exactly when the normalized path takes more than
\* 112 bytes (two for each character); when it succeeds, the decoded result
\* starts with a colon, holds no slash, and encodes to the same bytes.
C22_PathCodec ==
    /\ codec.state /= "none" =>
           (codec.state = "raised" <=> 2 * Chars(WithColons(codec.path)) > 112)
    /\ codec.state \in {"decoded", "reencoded"} =>
           /\ Head(codec.decoded) = ":"
           /\ \A i \in 1..Len(codec.decoded) : codec.decoded[i] /= "/"
           /\ codec.decoded = WithColons(codec.path)
    /\ codec.state = "reencoded" => codec.reencoded = codec.encoded

\* a path with a slash and no leading colon that takes exactly 112 bytes was
\* encoded, decoded and encoded again
C22_Witness ==
    /\ codec.state = "reencoded"
    /\ codec.path /= <<>>
    /\ Head(codec.path) /= ":"
    /\ \E i \in 1..Len(codec.path) : codec.path[i] = "/"
    /\ 2 * Chars(codec.decoded) = 112

\* encode_path raised for a path of 57 characters
C22_WitnessTooLong ==
    /\ codec.state = "raised"
    /\ 2 * Chars(WithColons(codec.path)) = 114

\* ------------------------------------------------------------------------
\* The master playlist between saves
\* ------------------------------------------------------------------------
\* C23: without a save, after any calls of the Mutation API, sync_file and
\* remove_track on a library whose master playlist lists the ids of the tracks
\* in library order, the master playlist still lists them so.
C23_MasterMirrorsBetweenSaves ==
    get_master_playlist(db) /= 0 =>
        db.playlists[get_master_playlist(db)].track_ids = TrackIdSeq(db)

\* C24: when a child of a track record or of a playlist record bears another
\* identifier than the expected one, or declares a length of zero, parsing ends
\* without an error, the record keeps what its children before that one gave,
\* nothing of that child or of the children behind it is taken, and the
\* records and sections that follow are parsed as they are.
C24_IdentifierMismatch ==
    /\ Finished(parse)
    /\ parse.fault.kind \in {"magic", "zero"}
    /\ parse.fault.child /= 0
    => /\ parse.state = "done"
       /\ parse.db = _parse_database(Truncated(parse.image, parse.fault))

\* ------------------------------------------------------------------------
\* The dbid written by successive saves
\* ------------------------------------------------------------------------
\* the dbid the image holds for the track of the given id, 0 when it has none
WrittenDbid(image, id) ==
    LET S == {i \in 1..Len(image.mhlt) : image.mhlt[i].unique_id = id}
    IN IF S = {} THEN 0 ELSE image.mhlt[Max(S)].dbid

\* C25: a save that replaces the file written by the previous save of the same
\* library, no mutation in between, writes for every track the dbid that the
\* previous save wrote, also for a track whose dbid is zero in memory.
C25_StableDbid ==
    [][(/\ pc = "written"
        /\ dbfile.complete
        /\ dbfile'.complete
        /\ dbfile' /= dbfile)
       => \A i \in 1..Len(db.tracks) :
             WrittenDbid(dbfile'.image, db.tracks[i].id)
                = WrittenDbid(dbfile.image, db.tracks[i].id)]_vars

\* ------------------------------------------------------------------------
\* What serialization changes in memory
\* ------------------------------------------------------------------------
\* the step in which save calls _build_database
Serializes == pc = "idle" /\ last'.op = "save" /\ last'.err \in {"running", "SerializeFailed"}

\* C26: serializing a library leaves its tracks and every playlist but the
\* master as they are; a master is inserted at index 0 only when there is
\* none, else the playlists keep their places and only the track_ids of the
\* master may differ; database_id and library_persistent_id change only when
\* they are zero; and serializing the result again changes nothing.
C26_SerializationFrame ==
    [][Serializes =>
        LET m == get_master_playlist(db)
        IN /\ db'.tracks = db.tracks
           /\ IF m = 0
              THEN /\ Len(db'.playlists) = Len(db.playlists) + 1
                   /\ db'.playlists[1].is_master
                   /\ db'.playlists[1].track_ids = TrackIdSeq(db)
                   /\ Tail(db'.playlists) = db.playlists
              ELSE /\ Len(db'.playlists) = Len(db.playlists)
                   /\ \A i \in 1..Len(db.playlists) :
                         IF i = m
                         THEN /\ db'.playlists[i] =
                                   [db.playlists[i] EXCEPT !.track_ids = TrackIdSeq(db)]
                         ELSE db'.playlists[i] = db.playlists[i]
           /\ db.database_id /= 0 => db'.database_id = db.database_id
           /\ db.library_persistent_id /= 0 =>
                 db'.library_persistent_id = db.library_persistent_id
           /\ db'.database_id /= 0 /\ db'.library_persistent_id /= 0
           /\ \A r1 \in RandomIds, r2 \in RandomIds :
                 PrepareDatabase(db', r1, r2) = db']_vars

\* a library of two user playlists and no master was serialized: the master
\* went in at index 0 ahead of them
C26_Witness ==
    /\ pc = "built"
    /\ last = Returned("save", "running")
    /\ Len(db.playlists) = 3
    /\ db.playlists[1].is_master
    /\ ~db.playlists[2].is_master
    /\ db.playlists[2].track_ids /= db.playlists[1].track_ids

\* ------------------------------------------------------------------------
\* The folder-sync worker and the cancel handler
\* ------------------------------------------------------------------------
\* the ids that the master playlist record of the image lists
WrittenMasterIds(image) ==
    UNION {{image.mhlp[i].mhips[k].track_id : k \in 1..Len(image.mhlp[i].mhips)} :
              i \in {j \in 1..Len(image.mhlp) : image.mhlp[j].is_master = 1}}

\* C27: while the worker has appended a track and not yet its id to the
\* master, the handler of the cancel button serializes nothing; the master
\* playlist never holds an id twice; and every track that the written file
\* lists is in the master playlist that the file holds.
C27_SingleOwner ==
    /\ [][batch.state = "appended" =>
            ~(pc' /= pc /\ pc' \in {"prepared", "built"})]_vars
    /\ [](\A i \in 1..Len(db.playlists) :
            db.playlists[i].is_master =>
                \A j, k \in 1..Len(db.playlists[i].track_ids) :
                    db.playlists[i].track_ids[j] = db.playlists[i].track_ids[k]
                        => j = k)
    /\ [](dbfile.complete =>
            \A i \in 1..Len(dbfile.image.mhlt) :
                dbfile.image.mhlt[i].unique_id \in WrittenMasterIds(dbfile.image))

\* ------------------------------------------------------------------------
\* The destination of a copy
\* ------------------------------------------------------------------------
\* C28: when sync_file copies, no file exists at the destination path, also
\* when another program creates files in the Fnn folders while sync_file runs.
C28_SafeFileCreation ==
    [][copying.state = "checked" /\ copying'.state = "copied" =>
          MusicFile(copying.dest_folder, copying.dest_filename) \notin files]_vars

\* ------------------------------------------------------------------------
\* sync_file that raises
\* ------------------------------------------------------------------------
\* C29: a sync_file that raises leaves the tracks and the playlists of the
\* library as they were; when it raises for the extension or for a duplicate,
\* the files and the folders of the device are as they were too.
C29_FailedSyncLeavesLibrary ==
    [][last'.op = "sync_file" /\ last'.err /= "ok" =>
          /\ db'.tracks = db.tracks
          /\ db'.playlists = db.playlists
          /\ last'.err \in {"UnsupportedFormat", "AlreadyExists"} =>
                files' = files /\ folders' = folders]_vars

\* a copy failed half way into a library that holds a track: the file it left
\* is on the device and no track stands for it
C29_Witness ==
    /\ last = Returned("sync_file", "IOFailed")
    /\ db.tracks /= <<>>
    /\ Cardinality(files) > Len(db.tracks)

\* sync_file raised for a duplicate of a track of the library
C29_WitnessDuplicate ==
    /\ last = Returned("sync_file", "AlreadyExists")
    /\ db.tracks /= <<>>

\* sync_file raised for the extension
C29_WitnessExtension == last = Returned("sync_file", "UnsupportedFormat")

\* ------------------------------------------------------------------------
\* Termination of the parser
\* ------------------------------------------------------------------------
\* C30: parsing ends, with a library or with an error; a pass of the loop over
\* the children of a track record or of a playlist record that stays in the
\* loop moves the offset forward; a pass of the loop over the records of a
\* list that stays in the loop moves the offset of the list forward and counts
\* one more pass; and the loop over the sections starts no more than
\* num_children sections.
C30_ParserTermination ==
    /\ parse.state = "sections" ~> Finished(parse)
    /\ [][/\ parse.state = "record" /\ parse'.state = "record"
              => parse'.rec_offset > parse.rec_offset
          /\ parse.state = "record" /\ parse'.state = "list"
              => /\ parse'.list_offset > parse.list_offset
                 /\ parse'.list_iter = parse.list_iter + 1
          /\ parse.state = "sections" /\ parse'.state = "list"
              => parse'.sec = parse.sec + 1]_vars
    /\ [](parse.sec <= NUM_SECTIONS)

\* a file in which a child of a playlist record declares a length of zero was
\* parsed to its end
C30_Witness ==
    /\ parse.state = "done"
    /\ parse.fault.kind = "zero"
    /\ parse.fault.sec = 2
    /\ parse.fault.child /= 0

====
